---- MODULE Spec2Model ----
(***************************************************************************)
(* Model of the aggregation pipeline of the Agent Observability dashboard  *)
(* (src/langfuse_client.py): the two rollups over the flat record lists    *)
(* produced by the fetchers.                                               *)
(*                                                                         *)
(* Python strings are modelled as sequences of one-character strings, so   *)
(* that str.lower(), string equality and string ordering are computed and  *)
(* not assumed.  A pandas DataFrame is modelled as a record                *)
(*   [columns |-> <<column names>>, rows |-> <<row, ...>>]                 *)
(* where a row is a function from column names to cell values; a missing   *)
(* cell (pandas' NaN) is a column that is not in the domain of the row.    *)
(***************************************************************************)
EXTENDS Integers, Sequences, FiniteSets, TLC

VARIABLES
    pending,     \* the rollup whose call is pending, "none" once it returned
    traces,      \* argument of aggregate_company_conversations
    tool_calls,  \* argument of aggregate_tool_calls_by_name
    company_df,  \* value returned by aggregate_company_conversations
    tool_df,     \* value returned by aggregate_tool_calls_by_name
    batch,       \* the traces of one upstream page, as decoded from its JSON
    appended,    \* the records the loop over batch appended to the result
    batch_pc,    \* the loop over batch: "pending", "completed" or "raised"
    fetch_pc,    \* fetch_traces_by_company: "call", "request", "response",
                 \* "returned" or "raised"
    client,      \* its argument _client: "Langfuse" or "None"
    ascii_keys,  \* whether "public_key:secret_key" has only ASCII characters
    page,        \* its local variable page
    collected,   \* its local list traces, page by page: the number of
                 \* records each page appended
    requested,   \* the page numbers of the requests issued, in order
    response,    \* the response to the request in flight
    loop_exit,   \* the statement that ended the page loop
    result,      \* the value returned to the caller
    now,         \* the time, in seconds
    cache,       \* st.cache_data: the entry of each (function, parameters)
    computed,    \* for each (function, parameters): the last call that ran
                 \* the function body, and whether the cache was cleared since
    last_call,   \* the last call of a memoized fetcher and what it did
    calls,       \* the number of calls of the memoized fetchers so far
    app_pc,      \* src/app.py: "start", "client", "stopped", "tab2", "done"
    secrets,     \* st.secrets["langfuse"]: public_key and secret_key
    environ,     \* os.environ: LANGFUSE_PUBLIC_KEY and LANGFUSE_SECRET_KEY
    app_client,  \* client of src/app.py: "Langfuse" or "None"
    errors,      \* the messages shown with st.error
    fetch_calls, \* the number of calls of the fetchers in this run
    upstream,    \* whether a request was issued to the upstream API
    client_keys, \* the keys get_langfuse_client gave to Langfuse(...)
    request_keys,  \* the keys in the Authorization header of each request
    detail_pc,   \* fetch_tool_calls_by_company: "call", "loop", "returned"
                 \* or "raised"
    detail_client, \* its argument _client: "Langfuse" or "None"
    fetched,     \* what its call of fetch_traces_by_company gives
    detail_keys, \* the keys it resolves: "missing", "not ascii" or "ascii"
    details,     \* the outcome of the detail request of each trace visited
    detail_calls,  \* its local list tool_calls
    detail_result, \* the value returned to the caller
    run_now,     \* datetime.now() of the last run of src/app.py, in seconds
    runs,        \* the number of runs of the script in the session
    run_cache,   \* st.cache_data: the entries of fetch_traces_by_company
    time_period, \* the option of the radio of the sidebar
    custom_dates,  \* the two st.date_input values, as day numbers
    branch,      \* the branch of get_time_range_filter the run took
    window,      \* (start_time, end_time) passed to the fetchers
    served,      \* the trace data of the run: "cache" or "upstream"
    trigger      \* what started the run: "rerun" or "refresh"

aggVars == <<pending, traces, tool_calls, company_df, tool_df>>

recordVars == <<batch, appended, batch_pc>>

fetchVars ==
    <<fetch_pc, client, ascii_keys, page, collected, requested, response,
      loop_exit, result>>

cacheVars == <<now, cache, computed, last_call, calls>>

appVars ==
    <<app_pc, secrets, environ, app_client, errors, fetch_calls, upstream,
      client_keys, request_keys>>

detailVars ==
    <<detail_pc, detail_client, fetched, detail_keys, details, detail_calls,
      detail_result>>

runVars ==
    <<run_now, runs, run_cache, time_period, custom_dates, branch, window,
      served, trigger>>

vars ==
    <<aggVars, recordVars, fetchVars, cacheVars, appVars, detailVars,
      runVars>>

\* Longest input list of trace records.
MaxTraces == 3

\* Longest input list of tool-call records.
MaxToolCalls == 3

\* Longest page of traces whose every record is followed.
MaxBatch == 2

\* Most calls of the memoized fetchers in one session.
MaxCalls == 3

\* A result variable before its function has returned.
NotReturned == [columns |-> <<"<not returned>">>, rows |-> <<>>]

\* The variables of the rollups when no rollup is being followed.
AggIdle ==
    /\ pending = "none"
    /\ traces = <<>>
    /\ tool_calls = <<>>
    /\ company_df = NotReturned
    /\ tool_df = NotReturned

\* No response in flight.
NoResponse == [get |-> "not issued"]

\* The variables of fetch_traces_by_company when no call is being followed.
FetchIdle ==
    /\ fetch_pc = "returned"
    /\ client = "None"
    /\ ascii_keys = TRUE
    /\ page = 1
    /\ collected = <<>>
    /\ requested = <<>>
    /\ response = NoResponse
    /\ loop_exit = "not entered"
    /\ result = <<>>

\* The variables of the memoization when no session is being followed.
CacheIdle ==
    /\ now = 0
    /\ cache = <<>>
    /\ computed = <<>>
    /\ last_call = <<>>
    /\ calls = 0

\* The variables of the script of src/app.py when no run is being followed.
AppIdle ==
    /\ app_pc = "done"
    /\ secrets = <<>>
    /\ environ = <<>>
    /\ app_client = "None"
    /\ errors = <<>>
    /\ fetch_calls = 0
    /\ upstream = FALSE
    /\ client_keys = <<>>
    /\ request_keys = <<>>

\* The variables of the record loop when no page is being followed.
DetailIdle ==
    /\ detail_pc = "returned"
    /\ detail_client = "None"
    /\ fetched = [raised |-> FALSE, traces |-> <<>>]
    /\ detail_keys = "missing"
    /\ details = <<>>
    /\ detail_calls = <<>>
    /\ detail_result = <<>>

RunIdle ==
    /\ run_now = 0
    /\ runs = 0
    /\ run_cache = {}
    /\ time_period = <<>>
    /\ custom_dates = <<>>
    /\ branch = "none"
    /\ window = <<>>
    /\ served = "none"
    /\ trigger = "none"

RecordsIdle ==
    /\ batch = <<>>
    /\ appended = <<>>
    /\ batch_pc = "completed"

(***************************************************************************)
(* Strings                                                                 *)
(***************************************************************************)

\* The characters that occur, in code-point order.
Alphabet ==
    <<" ", "+", "-", ".",
      "0", "1", "2", "3", "4", "5", "6", "7", "8", "9", ":",
      "A", "B", "C", "D", "E", "F", "G", "H", "I", "J", "K", "L", "M",
      "N", "O", "P", "Q", "R", "S", "T", "U", "V", "W", "X", "Y", "Z",
      "_",
      "a", "b", "c", "d", "e", "f", "g", "h", "i", "j", "k", "l", "m",
      "n", "o", "p", "q", "r", "s", "t", "u", "v", "w", "x", "y", "z">>

\* Position of each character in code-point order.
CodePoint ==
    [c \in { Alphabet[i] : i \in DOMAIN Alphabet } |->
        CHOOSE i \in DOMAIN Alphabet : Alphabet[i] = c]

\* ord(c), up to the gaps between the characters that occur.
Ord(c) == CodePoint[c]

\* str.lower() on one character: "A".."Z" map to "a".."z", the rest is kept.
LowerChar(c) ==
    IF Ord("A") <= Ord(c) /\ Ord(c) <= Ord("Z")
    THEN Alphabet[Ord(c) - Ord("A") + Ord("a")]
    ELSE c

\* str.lower()
Lower(s) == [i \in 1..Len(s) |-> LowerChar(s[i])]

\* s < t for Python strings: lexicographic by code point.
RECURSIVE StrLess(_, _)
StrLess(s, t) ==
    IF t = <<>> THEN FALSE
    ELSE IF s = <<>> THEN TRUE
    ELSE IF s[1] # t[1] THEN Ord(s[1]) < Ord(t[1])
    ELSE StrLess(Tail(s), Tail(t))

\* (a, b) < (c, d) for tuples of two strings.
PairLess(p, q) ==
    \/ StrLess(p[1], q[1])
    \/ p[1] = q[1] /\ StrLess(p[2], q[2])

(***************************************************************************)
(* The denylist                                                            *)
(***************************************************************************)

TEST_COMPANIES ==
    { <<"s","t","a","r","t","x">>,
      <<"s","t","a","r","t","x","c","o","m","m","u","n","i","t","y">>,
      <<"i","n","v","o","i","c","e","m","a","t","e">>,
      <<"l","e","o","a","d","s","a","i">>,
      <<"t","e","s","t">>,
      <<"f","i","b","o","n","a","c","c","i","1","0","1">>,
      <<"f","i","b","o","n","a","c","c","i">>,
      <<"f","i","b","o","n","a","c","c","i","3","0","0">>,
      <<"t","e","s","t","-","c","o","m","p","a","n","y">>,
      <<"t","h","i","s","w","o","r","k","s">>,
      <<"v","a","n","d","e","l","a","y","i","n","d","u","s","t","r","i","e","s">>,
      <<"r","e","d","b","u","l","l">>,
      <<"a","v","e","r","y">>,
      <<"a","v","e","r","y","m","a","g","o","r","i","u","m","s","w","o","n","d","e","r","e","m","p","o","r","i","u","m">>,
      <<"h","o","l","l","y">>,
      <<"u","n","k","n","o","w","n"," ","c","o","m","p","a","n","y">>,
      <<"f","i","n","a","l","t","e","s","t">>,
      <<"l","e","o","t","e","s","t">>,
      <<"t","o","m","b","r","o","s","c","h","i","n","s","k","y","d","i","g","i","t","a","l","l","i","c">>,
      <<"t","o","m","b","r","o","s","c","h","i","n","s","k","y","d","i","g","i","t","a","l","l","l","c">>,
      <<"w","a","w","a">>,
      <<"a","g","o","o","d","c","o","m","p","a","n","y">>,
      <<"t","e","s","l","a">>,
      <<"p","a","c","a","r","a","n","a">>,
      <<"a","p","p","l","e">>,
      <<"p","r","a","d","a">>,
      <<"b","r","u","c","e">>,
      <<"i","n","t","u","i","t">> }

\* [c.lower() for c in TEST_COMPANIES]
LoweredTestCompanies == { Lower(c) : c \in TEST_COMPANIES }

\* A variant of IsTestCompany that compares without lower-casing the name.
IsTestCompanyCaseSensitive(company_name) == company_name \in TEST_COMPANIES

\* df['company_name'].str.lower().isin([c.lower() for c in TEST_COMPANIES])
IsTestCompany(company_name) == Lower(company_name) \in LoweredTestCompanies

\* A variant of FilterTestCompanies that keeps the lower-cased names.
FilterTestCompaniesLowered(records) ==
    LET Keep(r) == ~IsTestCompany(r.company_name)
        kept == SelectSeq(records, Keep)
    IN  [i \in 1..Len(kept) |->
            [kept[i] EXCEPT !.company_name = Lower(kept[i].company_name)]]

\* df[~df['company_name'].str.lower().isin(...)]
FilterTestCompanies(records) ==
    LET Keep(r) == ~IsTestCompany(r.company_name)
    IN  SelectSeq(records, Keep)

(***************************************************************************)
(* Input domains                                                           *)
(***************************************************************************)

Acme    == <<"A","c","m","e">>
ACME    == <<"A","C","M","E">>
Test    == <<"T","e","s","t">>
TEST    == <<"T","E","S","T">>
Testing == <<"T","e","s","t","i","n","g">>

CompanyNames == {Acme, ACME, Test, TEST, Testing}

c1 == <<"c","1">>
c2 == <<"c","2">>
ConversationIds == {c1, c2}

TraceIds == { <<"t","1">> }

\* (success_count, failure_count) of one trace, from metadata.tools.
ToolsMetadata == { <<0, 0>>, <<2, 1>> }

\* The flat trace records fetch_traces_by_company appends (the timestamp,
\* which no rollup reads, is left out).
TraceRecords ==
    { [company_name    |-> c,
       conversation_id |-> v,
       trace_id        |-> t,
       success_count   |-> m[1],
       failure_count   |-> m[2]] :
      c \in CompanyNames, v \in ConversationIds, t \in TraceIds, m \in ToolsMetadata }

search == <<"s","e","a","r","c","h">>
create == <<"c","r","e","a","t","e">>
ToolNames == {search, create}

\* The flat tool-call records fetch_tool_calls_by_company appends.
ToolCallRecords ==
    { [company_name |-> c, tool_name |-> n, success |-> s] :
      c \in CompanyNames, n \in ToolNames, s \in BOOLEAN }

\* All lists over S of length at most n.
ListsUpTo(S, n) == UNION { [1..k -> S] : k \in 0..n }

(***************************************************************************)
(* DataFrame helpers                                                       *)
(***************************************************************************)

\* The set of the elements of a sequence.
Range(s) == { s[i] : i \in DOMAIN s }

\* The columns of DataFrame(list of dicts): the keys of the dicts.
Columns(records) == UNION { DOMAIN r : r \in Range(records) }

\* The strings of S in ascending order (groupby sorts its group keys).
RECURSIVE SortStrings(_)
SortStrings(S) ==
    IF S = {} THEN <<>>
    ELSE LET m == CHOOSE x \in S : \A y \in S \ {x} : StrLess(x, y)
         IN  <<m>> \o SortStrings(S \ {m})

\* The pairs of strings of S in ascending order.
RECURSIVE SortPairs(_)
SortPairs(S) ==
    IF S = {} THEN <<>>
    ELSE LET m == CHOOSE x \in S : \A y \in S \ {x} : PairLess(x, y)
         IN  <<m>> \o SortPairs(S \ {m})

\* Sum of the column col over a list of records.
RECURSIVE SumColumn(_, _)
SumColumn(records, col) ==
    IF records = <<>> THEN 0
    ELSE Head(records)[col] + SumColumn(Tail(records), col)

\* Number of non-null cells of the column col (the 'count' aggregation).
CountColumn(records, col) ==
    Cardinality({ i \in DOMAIN records : col \in DOMAIN records[i] })

\* The concatenation of a list of lists.
RECURSIVE Flatten(_)
Flatten(ss) == IF ss = <<>> THEN <<>> ELSE Head(ss) \o Flatten(Tail(ss))

\* The row of a result table: a function from column names to cells.
Row2(k1, v1, k2, v2) == (k1 :> v1) @@ (k2 :> v2)

\* The rows of a list whose column col holds the value v, in order.
RowsWhere(rows, col, v) ==
    LET Has(r) == r[col] = v
    IN  SelectSeq(rows, Has)

\* A variant of MergeOuter that joins every left row with every right row.
MergeCross(left, right) ==
    LET NotKey(c) == c # "Company"
    IN  [columns |-> left.columns \o SelectSeq(right.columns, NotKey),
         rows    |-> [i \in 1..(Len(left.rows) * Len(right.rows)) |->
                        left.rows[((i - 1) \div Len(right.rows)) + 1]
                        @@ right.rows[((i - 1) % Len(right.rows)) + 1]]]

\* left.merge(right, on='Company', how='outer'): one output row per pair of
\* a left and a right row with the same key, keys in ascending order; a key
\* that one side lacks gets no cell (NaN) in that side's columns.
MergeOuter(left, right) ==
    LET keys == SortStrings({ r["Company"] : r \in Range(left.rows) \cup Range(right.rows) })
        Missing(k) == << ("Company" :> k) >>
        RowsFor(k) ==
            LET ls  == RowsWhere(left.rows, "Company", k)
                rs  == RowsWhere(right.rows, "Company", k)
                ls2 == IF ls = <<>> THEN Missing(k) ELSE ls
                rs2 == IF rs = <<>> THEN Missing(k) ELSE rs
            IN  [i \in 1..(Len(ls2) * Len(rs2)) |->
                    ls2[((i - 1) \div Len(rs2)) + 1] @@ rs2[((i - 1) % Len(rs2)) + 1]]
        NotKey(c) == c # "Company"
    IN  [columns |-> left.columns \o SelectSeq(right.columns, NotKey),
         rows    |-> Flatten([i \in 1..Len(keys) |-> RowsFor(keys[i])])]

\* df.fillna(v)
FillNa(df, v) ==
    [df EXCEPT !.rows =
        [i \in DOMAIN df.rows |->
            [c \in Range(df.columns) |->
                IF c \in DOMAIN df.rows[i] THEN df.rows[i][c] ELSE v]]]

\* The value of a call that raised instead of returning.
Raised == [columns |-> <<"<raised>">>, rows |-> <<>>]

\* df[col] = df[col].astype(int) for each col of cols: raises on a NaN cell.
AsTypeInt(df, cols) ==
    IF \A i \in DOMAIN df.rows : \A c \in cols : c \in DOMAIN df.rows[i]
    THEN df
    ELSE Raised

\* A variant of SortValuesDescending that sorts ascending.
SortValuesAscending(df, col) ==
    { [df EXCEPT !.rows = [i \in DOMAIN df.rows |-> df.rows[p[i]]]] :
        p \in { q \in Permutations(DOMAIN df.rows) :
                  \A i \in 1..(Len(df.rows) - 1) :
                      df.rows[q[i]][col] <= df.rows[q[i + 1]][col] } }

\* df.sort_values(col, ascending=False) with the default kind='quicksort',
\* which is not stable: every arrangement of the rows in which col does not
\* increase is a possible outcome.
SortValuesDescending(df, col) ==
    { [df EXCEPT !.rows = [i \in DOMAIN df.rows |-> df.rows[p[i]]]] :
        p \in { q \in Permutations(DOMAIN df.rows) :
                  \A i \in 1..(Len(df.rows) - 1) :
                      df.rows[q[i]][col] >= df.rows[q[i + 1]][col] } }

(***************************************************************************)
(* aggregate_company_conversations                                         *)
(***************************************************************************)

\* pd.DataFrame(columns=['Company', 'Number of Conversations',
\*                       'Number of Tool Calls'])
EmptyCompanyFrame ==
    [columns |-> <<"Company", "Number of Conversations", "Number of Tool Calls">>,
     rows    |-> <<>>]

\* df.groupby(['company_name', 'conversation_id']).size().reset_index(name='count')
UniqueConversations(df) ==
    LET keys == SortPairs({ <<r.company_name, r.conversation_id>> : r \in Range(df) })
    IN  [i \in 1..Len(keys) |->
            [company_name    |-> keys[i][1],
             conversation_id |-> keys[i][2],
             count           |-> Cardinality({ j \in DOMAIN df :
                                     /\ df[j].company_name = keys[i][1]
                                     /\ df[j].conversation_id = keys[i][2] })]]

\* A variant of ConversationCounts that counts the records of a company
\* without the deduplicating groupby.
ConversationCountsRaw(df) ==
    LET keys == SortStrings({ r.company_name : r \in Range(df) })
    IN  [columns |-> <<"Company", "Number of Conversations">>,
         rows    |-> [i \in 1..Len(keys) |->
                        Row2("Company", keys[i],
                             "Number of Conversations",
                             CountColumn(RowsWhere(df, "company_name", keys[i]),
                                         "conversation_id"))]]

\* unique_conversations.groupby('company_name')
\*     .agg({'conversation_id': 'count'}).reset_index()
ConversationCounts(df) ==
    LET unique_conversations == UniqueConversations(df)
        keys == SortStrings({ r.company_name : r \in Range(unique_conversations) })
    IN  [columns |-> <<"Company", "Number of Conversations">>,
         rows    |-> [i \in 1..Len(keys) |->
                        Row2("Company", keys[i],
                             "Number of Conversations",
                             CountColumn(RowsWhere(unique_conversations, "company_name", keys[i]),
                                         "conversation_id"))]]

\* A variant of ToolCallCounts that counts the distinct conversations of a
\* company instead of its records.
ToolCallCountsDeduped(df) ==
    LET keys == SortStrings({ r.company_name : r \in Range(df) })
    IN  [columns |-> <<"Company", "Number of Tool Calls">>,
         rows    |-> [i \in 1..Len(keys) |->
                        Row2("Company", keys[i],
                             "Number of Tool Calls",
                             Cardinality({ r.conversation_id :
                                 r \in Range(RowsWhere(df, "company_name", keys[i])) }))]]

\* df.groupby('company_name').agg({'trace_id': 'count'}).reset_index()
ToolCallCounts(df) ==
    LET keys == SortStrings({ r.company_name : r \in Range(df) })
    IN  [columns |-> <<"Company", "Number of Tool Calls">>,
         rows    |-> [i \in 1..Len(keys) |->
                        Row2("Company", keys[i],
                             "Number of Tool Calls",
                             CountColumn(RowsWhere(df, "company_name", keys[i]), "trace_id"))]]

\* The first record of every (company, conversation) pair, in order.
RECURSIVE FirstOfEachConversation(_)
FirstOfEachConversation(df) ==
    IF df = <<>> THEN <<>>
    ELSE LET Other(r) == \/ r.company_name # Head(df).company_name
                         \/ r.conversation_id # Head(df).conversation_id
         IN  <<Head(df)>> \o FirstOfEachConversation(SelectSeq(Tail(df), Other))

\* A variant of SuccessFailureCounts that sums over one record of each
\* conversation instead of over every record.
SuccessFailureCountsDeduped(df) ==
    LET keys == SortStrings({ r.company_name : r \in Range(df) })
    IN  [columns |-> <<"Company", "Success Count", "Failure Count">>,
         rows    |-> [i \in 1..Len(keys) |->
                        LET g == RowsWhere(FirstOfEachConversation(df), "company_name", keys[i])
                        IN  ("Company" :> keys[i])
                            @@ ("Success Count" :> SumColumn(g, "success_count"))
                            @@ ("Failure Count" :> SumColumn(g, "failure_count"))]]

\* The success/failure sums per company, or zeros when the records carry no
\* success_count / failure_count column.
SuccessFailureCounts(df) ==
    LET keys == SortStrings({ r.company_name : r \in Range(df) })
        has  == {"success_count", "failure_count"} \subseteq Columns(df)
    IN  [columns |-> <<"Company", "Success Count", "Failure Count">>,
         rows    |-> [i \in 1..Len(keys) |->
                        LET g == RowsWhere(df, "company_name", keys[i])
                        IN  ("Company" :> keys[i])
                            @@ ("Success Count" :> IF has THEN SumColumn(g, "success_count") ELSE 0)
                            @@ ("Failure Count" :> IF has THEN SumColumn(g, "failure_count") ELSE 0)]]

\* The possible return values of aggregate_company_conversations(traces).
aggregate_company_conversations(trs) ==
    IF trs = <<>> THEN { EmptyCompanyFrame }
    ELSE
    LET df == FilterTestCompanies(trs)
    IN  IF Len(df) = 0 THEN { EmptyCompanyFrame }
        ELSE
        LET merged1    == MergeOuter(ConversationCounts(df), ToolCallCounts(df))
            merged2    == FillNa(MergeOuter(merged1, SuccessFailureCounts(df)), 0)
            aggregated == AsTypeInt(merged2, {"Number of Conversations",
                                              "Number of Tool Calls",
                                              "Success Count", "Failure Count"})
        IN  IF aggregated = Raised THEN { Raised }
            ELSE SortValuesDescending(aggregated, "Number of Conversations")

(***************************************************************************)
(* aggregate_tool_calls_by_name                                            *)
(***************************************************************************)

\* A variant of EmptyToolFrame without the two derived columns.
EmptyToolFrameShort ==
    [columns |-> <<"Company", "Tool Name", "Total Calls", "Successful">>,
     rows    |-> <<>>]

\* pd.DataFrame(columns=['Company', 'Tool Name', 'Total Calls', 'Successful',
\*                       'Failed', 'Success Rate (%)'])
EmptyToolFrame ==
    [columns |-> <<"Company", "Tool Name", "Total Calls", "Successful",
                   "Failed", "Success Rate (%)">>,
     rows    |-> <<>>]

\* int(success): True counts 1 and False 0 in the 'sum' aggregation.
BoolAsInt(b) == IF b THEN 1 ELSE 0

\* A variant of SumSuccess that counts the records ('count' for 'sum').
SumSuccessAsCount(records) == Len(records)

\* Sum of the boolean column 'success' over a list of records.
RECURSIVE SumSuccess(_)
SumSuccess(records) ==
    IF records = <<>> THEN 0
    ELSE BoolAsInt(Head(records).success) + SumSuccess(Tail(records))

\* A variant of RoundHalfEven that truncates.
RoundDown(n, d) == n \div d

\* n / d rounded to the nearest integer, a tie going to the even neighbour
\* (the rounding of Series.round): the value of round(x, 1) in tenths when
\* n / d is ten times x.
RoundHalfEven(n, d) ==
    LET q == n \div d
        r == n % d
    IN  IF 2 * r < d THEN q
        ELSE IF 2 * r > d THEN q + 1
        ELSE IF q % 2 = 0 THEN q ELSE q + 1

\* df.groupby(['company_name', 'tool_name']).agg({'success': ['count', 'sum']})
\*   .reset_index() with the columns renamed.
GroupByCompanyTool(df) ==
    LET keys == SortPairs({ <<r.company_name, r.tool_name>> : r \in Range(df) })
        Group(k) ==
            LET In(r) == r.company_name = k[1] /\ r.tool_name = k[2]
            IN  SelectSeq(df, In)
    IN  [columns |-> <<"Company", "Tool Name", "Total Calls", "Successful">>,
         rows    |-> [i \in 1..Len(keys) |->
                        ("Company" :> keys[i][1])
                        @@ ("Tool Name" :> keys[i][2])
                        @@ ("Total Calls" :> CountColumn(Group(keys[i]), "success"))
                        @@ ("Successful" :> SumSuccess(Group(keys[i])))]]

\* aggregated['Failed'] = aggregated['Total Calls'] - aggregated['Successful']
WithFailed(df) ==
    [columns |-> Append(df.columns, "Failed"),
     rows    |-> [i \in DOMAIN df.rows |->
                    df.rows[i] @@
                    ("Failed" :> df.rows[i]["Total Calls"] - df.rows[i]["Successful"])]]

\* aggregated['Success Rate (%)'] =
\*     (aggregated['Successful'] / aggregated['Total Calls'] * 100).round(1)
\* The cell holds the rate in tenths of a percent (667 stands for 66.7);
\* 0 / 0 is NaN, a missing cell.
WithSuccessRate(df) ==
    [columns |-> Append(df.columns, "Success Rate (%)"),
     rows    |-> [i \in DOMAIN df.rows |->
                    IF df.rows[i]["Total Calls"] = 0
                    THEN df.rows[i]
                    ELSE df.rows[i] @@
                         ("Success Rate (%)" :>
                            RoundHalfEven(df.rows[i]["Successful"] * 1000,
                                          df.rows[i]["Total Calls"]))]]

\* A variant of ToolRowBefore that orders Total Calls ascending.
ToolRowBeforeTotalAscending(a, b) ==
    \/ StrLess(a["Company"], b["Company"])
    \/ /\ a["Company"] = b["Company"]
       /\ a["Total Calls"] < b["Total Calls"]

\* Row a sorts strictly before row b under
\* sort_values(['Company', 'Total Calls'], ascending=[True, False]).
ToolRowBefore(a, b) ==
    \/ StrLess(a["Company"], b["Company"])
    \/ /\ a["Company"] = b["Company"]
       /\ a["Total Calls"] > b["Total Calls"]

\* One step of a stable sort: x goes before the first row it sorts strictly
\* before, and behind every row it ties with.
InsertToolRow(x, sorted) ==
    LET later == { i \in DOMAIN sorted : ToolRowBefore(x, sorted[i]) }
        at    == IF later = {} THEN Len(sorted) + 1
                 ELSE CHOOSE i \in later : \A j \in later : i <= j
    IN  SubSeq(sorted, 1, at - 1) \o <<x>> \o SubSeq(sorted, at, Len(sorted))

\* The rows in sorted order; a sort on several columns is a lexsort, which
\* is stable.
RECURSIVE StableSortToolRows(_)
StableSortToolRows(rows) ==
    IF rows = <<>> THEN <<>>
    ELSE InsertToolRow(rows[Len(rows)],
                       StableSortToolRows(SubSeq(rows, 1, Len(rows) - 1)))

\* df.sort_values(['Company', 'Total Calls'], ascending=[True, False])
SortValuesCompanyTotal(df) == [df EXCEPT !.rows = StableSortToolRows(df.rows)]

\* The return value of aggregate_tool_calls_by_name(tool_calls).
aggregate_tool_calls_by_name(tcs) ==
    IF tcs = <<>> THEN EmptyToolFrame
    ELSE
    LET df == FilterTestCompanies(tcs)
    IN  IF Len(df) = 0 THEN EmptyToolFrame
        ELSE
        LET rated      == WithSuccessRate(WithFailed(GroupByCompanyTool(df)))
            aggregated == AsTypeInt(rated, {"Total Calls", "Successful", "Failed"})
        IN  IF aggregated = Raised THEN Raised
            ELSE SortValuesCompanyTotal(aggregated)

(***************************************************************************)
(* Specification: a behaviour is one call of one rollup on one input list. *)
(***************************************************************************)

Init ==
    /\ \/ /\ pending = "aggregate_company_conversations"
          /\ traces \in ListsUpTo(TraceRecords, MaxTraces)
          /\ tool_calls = <<>>
       \/ /\ pending = "aggregate_tool_calls_by_name"
          /\ traces = <<>>
          /\ tool_calls \in ListsUpTo(ToolCallRecords, MaxToolCalls)
    /\ company_df = NotReturned
    /\ tool_df = NotReturned
    /\ RecordsIdle
    /\ FetchIdle
    /\ CacheIdle
    /\ AppIdle
    /\ DetailIdle
    /\ RunIdle

\* company_df = aggregate_company_conversations(traces)
AggregateCompany ==
    /\ pending = "aggregate_company_conversations"
    /\ company_df' \in aggregate_company_conversations(traces)
    /\ pending' = "none"
    /\ UNCHANGED <<traces, tool_calls, tool_df>>
    /\ UNCHANGED <<recordVars, fetchVars, cacheVars, appVars, detailVars, runVars>>

\* tool_df = aggregate_tool_calls_by_name(tool_calls)
AggregateTools ==
    /\ pending = "aggregate_tool_calls_by_name"
    /\ tool_df' = aggregate_tool_calls_by_name(tool_calls)
    /\ pending' = "none"
    /\ UNCHANGED <<traces, tool_calls, company_df>>
    /\ UNCHANGED <<recordVars, fetchVars, cacheVars, appVars, detailVars, runVars>>

Next ==
    \/ AggregateCompany
    \/ AggregateTools

Spec == Init /\ [][Next]_vars

(***************************************************************************)
(* What the properties are stated with                                     *)
(***************************************************************************)

\* a and b are the same character up to letter case.
SameCharIgnoringCase(a, b) ==
    \/ a = b
    \/ /\ Ord("A") <= Ord(a) /\ Ord(a) <= Ord("Z")
       /\ Ord(b) = Ord(a) + (Ord("a") - Ord("A"))
    \/ /\ Ord("A") <= Ord(b) /\ Ord(b) <= Ord("Z")
       /\ Ord(a) = Ord(b) + (Ord("a") - Ord("A"))

\* The input names that equal, as a whole, an entry of the denylist up to
\* letter case.
DenylistedNames ==
    { name \in CompanyNames :
        \E d \in TEST_COMPANIES :
            /\ Len(d) = Len(name)
            /\ \A i \in 1..Len(d) : SameCharIgnoringCase(name[i], d[i]) }

OnDenylist(name) == name \in DenylistedNames

\* Sum of f over the finite set S.
RECURSIVE SumOf(_, _)
SumOf(f, S) ==
    IF S = {} THEN 0
    ELSE LET x == CHOOSE y \in S : TRUE
         IN  f[x] + SumOf(f, S \ {x})

CompanyReturned == pending = "none" /\ company_df # NotReturned
ToolsReturned   == pending = "none" /\ tool_df # NotReturned

\* Positions of the input records that are not on the denylist.
KeptTraces    == { j \in DOMAIN traces : ~OnDenylist(traces[j].company_name) }
KeptToolCalls == { j \in DOMAIN tool_calls : ~OnDenylist(tool_calls[j].company_name) }

\* Positions of the kept trace records of company c.
TracesOf(c) == { j \in KeptTraces : traces[j].company_name = c }

\* Positions of the rows of the company rollup that carry company c.
CompanyRows(c) == { i \in DOMAIN company_df.rows : company_df.rows[i]["Company"] = c }

\* Positions of the kept tool-call records of company c and tool n.
ToolCallsOf(c, n) ==
    { j \in KeptToolCalls : tool_calls[j].company_name = c /\ tool_calls[j].tool_name = n }

CompanyAggregateColumns ==
    <<"Company", "Number of Conversations", "Number of Tool Calls",
      "Success Count", "Failure Count">>

ToolAggregateColumns ==
    <<"Company", "Tool Name", "Total Calls", "Successful", "Failed", "Success Rate (%)">>

(***************************************************************************)
(* Properties                                                              *)
(***************************************************************************)

\* C1: for every company with a record that is not on the denylist, the
\* company rollup has a row whose Number of Conversations is the number of
\* distinct conversation ids among that company's records.
C1_ConversationCountIsDistinctIds ==
    CompanyReturned =>
        \A c \in CompanyNames :
            TracesOf(c) # {} =>
                /\ CompanyRows(c) # {}
                /\ \A i \in CompanyRows(c) :
                      company_df.rows[i]["Number of Conversations"]
                        = Cardinality({ traces[j].conversation_id : j \in TracesOf(c) })

\* A company with more records than conversations is reported with the
\* number of its conversations.
C1_Witness ==
    /\ CompanyReturned
    /\ \E c \in CompanyNames : \E i \in CompanyRows(c) :
          /\ company_df.rows[i]["Number of Conversations"] = 2
          /\ Cardinality(TracesOf(c)) = 3

\* C2: Number of Tool Calls of a row is the raw number of the company's
\* records, and the column sums to the number of records not on the denylist.
C2_ToolCallCountIsRecordCount ==
    CompanyReturned =>
        /\ \A i \in DOMAIN company_df.rows :
              company_df.rows[i]["Number of Tool Calls"]
                = Cardinality(TracesOf(company_df.rows[i]["Company"]))
        /\ SumOf([i \in DOMAIN company_df.rows |->
                    company_df.rows[i]["Number of Tool Calls"]],
                 DOMAIN company_df.rows)
             = Cardinality(KeptTraces)

\* Three 'Acme' records with conversation ids c1, c1, c2 give
\* Number of Conversations = 2 and Number of Tool Calls = 3.
C2_Witness ==
    /\ CompanyReturned
    /\ Len(traces) = 3
    /\ \A j \in 1..3 : traces[j].company_name = Acme
    /\ <<traces[1].conversation_id, traces[2].conversation_id,
         traces[3].conversation_id>> = <<c1, c1, c2>>
    /\ Len(company_df.rows) = 1
    /\ company_df.rows[1]["Company"] = Acme
    /\ company_df.rows[1]["Number of Conversations"] = 2
    /\ company_df.rows[1]["Number of Tool Calls"] = 3

\* The companies of the rows of a returned table.
CompaniesIn(df) == { df.rows[i]["Company"] : i \in DOMAIN df.rows }

\* C3: in both rollups the companies of the output rows are exactly the
\* companies of the input records whose name is not, up to letter case, an
\* entry of the denylist: 'Test' and 'TEST' never appear, 'Testing' appears
\* whenever it is in the input.
C3_DenylistIsCaseInsensitiveAndExact ==
    /\ CompanyReturned =>
          /\ CompaniesIn(company_df) = { traces[j].company_name : j \in KeptTraces }
          /\ CompaniesIn(company_df) \cap {Test, TEST} = {}
          /\ (\E j \in DOMAIN traces : traces[j].company_name = Testing)
                => Testing \in CompaniesIn(company_df)
    /\ ToolsReturned =>
          /\ CompaniesIn(tool_df) = { tool_calls[j].company_name : j \in KeptToolCalls }
          /\ CompaniesIn(tool_df) \cap {Test, TEST} = {}
          /\ (\E j \in DOMAIN tool_calls : tool_calls[j].company_name = Testing)
                => Testing \in CompaniesIn(tool_df)

\* An input with 'Test', 'TEST' and 'Testing' yields rows for 'Testing' only.
C3_Witness ==
    /\ ToolsReturned
    /\ { tool_calls[j].company_name : j \in DOMAIN tool_calls } = {Test, TEST, Testing}
    /\ CompaniesIn(tool_df) = {Testing}

\* C4 (as claimed): an input that is empty or wholly on the denylist makes
\* aggregate_company_conversations return a zero-row table with the five
\* columns of a non-empty result.
C4_EmptyCompanyResultHasFullColumns ==
    (CompanyReturned /\ KeptTraces = {}) =>
        /\ company_df # Raised
        /\ company_df.rows = <<>>
        /\ company_df.columns = CompanyAggregateColumns

\* C5: aggregate_tool_calls_by_name never raises, every table it returns has
\* the six columns of the tool aggregate, with a cell under the first five in
\* every row, and it has no row when the input is empty or wholly on the
\* denylist.
C5_EmptyToolResultHasFullColumns ==
    ToolsReturned =>
        /\ tool_df # Raised
        /\ tool_df.columns = ToolAggregateColumns
        /\ \A i \in DOMAIN tool_df.rows :
              /\ DOMAIN tool_df.rows[i] \subseteq Range(ToolAggregateColumns)
              /\ Range(ToolAggregateColumns) \ {"Success Rate (%)"}
                    \subseteq DOMAIN tool_df.rows[i]
        /\ KeptToolCalls = {} => tool_df.rows = <<>>

\* A non-empty input wholly on the denylist has returned the empty table.
C5_Witness ==
    /\ ToolsReturned
    /\ Len(tool_calls) = 2
    /\ KeptToolCalls = {}
    /\ tool_df.rows = <<>>
    /\ Len(tool_df.columns) = 6

\* C6: every kept (company, tool) pair has a row, and in every row Total Calls
\* is the number of kept records of that company and tool, Successful the
\* number of those with success = true, Failed = Total Calls - Successful,
\* so 0 <= Successful <= Total Calls and Successful + Failed = Total Calls.
C6_ToolRowCounts ==
    ToolsReturned =>
        /\ \A j \in KeptToolCalls : \E i \in DOMAIN tool_df.rows :
              /\ tool_df.rows[i]["Company"] = tool_calls[j].company_name
              /\ tool_df.rows[i]["Tool Name"] = tool_calls[j].tool_name
        /\ \A i \in DOMAIN tool_df.rows :
              LET row == tool_df.rows[i]
                  g   == ToolCallsOf(row["Company"], row["Tool Name"])
              IN  /\ row["Total Calls"] = Cardinality(g)
                  /\ row["Successful"] = Cardinality({ j \in g : tool_calls[j].success })
                  /\ row["Failed"] = row["Total Calls"] - row["Successful"]
                  /\ 0 <= row["Successful"]
                  /\ row["Successful"] <= row["Total Calls"]
                  /\ row["Successful"] + row["Failed"] = row["Total Calls"]

\* Three 'search' calls with success true, false, true give Total Calls = 3,
\* Successful = 2, Failed = 1.
C6_Witness ==
    /\ ToolsReturned
    /\ Len(tool_calls) = 3
    /\ \A j \in 1..3 : tool_calls[j].company_name = Acme /\ tool_calls[j].tool_name = search
    /\ <<tool_calls[1].success, tool_calls[2].success, tool_calls[3].success>>
          = <<TRUE, FALSE, TRUE>>
    /\ Len(tool_df.rows) = 1
    /\ tool_df.rows[1]["Total Calls"] = 3
    /\ tool_df.rows[1]["Successful"] = 2
    /\ tool_df.rows[1]["Failed"] = 1

\* |x|
Abs(x) == IF x < 0 THEN -x ELSE x

\* C7: in every row with Total Calls > 0 the success rate is the multiple of
\* 0.1 nearest to Successful / Total Calls * 100 (in tenths: the integer
\* within one half of 1000 * Successful / Total Calls), and in a row with
\* Total Calls = 0 it is a missing cell, not a number.
C7_SuccessRateRounded ==
    ToolsReturned =>
        \A i \in DOMAIN tool_df.rows :
            LET row == tool_df.rows[i]
            IN  IF row["Total Calls"] > 0
                THEN /\ "Success Rate (%)" \in DOMAIN row
                     /\ 2 * Abs(row["Success Rate (%)"] * row["Total Calls"]
                                - 1000 * row["Successful"])
                          <= row["Total Calls"]
                ELSE "Success Rate (%)" \notin DOMAIN row

\* 2 successful calls of 3 are reported as 66.7.
C7_Witness ==
    /\ ToolsReturned
    /\ \E i \in DOMAIN tool_df.rows :
          /\ tool_df.rows[i]["Total Calls"] = 3
          /\ tool_df.rows[i]["Successful"] = 2
          /\ tool_df.rows[i]["Success Rate (%)"] = 667

\* C8: a company has exactly one row in the company rollup if it has a
\* record that is not on the denylist and no row otherwise, and the four
\* numeric cells of every row are present and are integers.
C8_OneRowPerCompanyAllIntegers ==
    CompanyReturned =>
        /\ \A c \in CompanyNames :
              Cardinality(CompanyRows(c)) = IF TracesOf(c) # {} THEN 1 ELSE 0
        /\ \A i \in DOMAIN company_df.rows :
              /\ company_df.rows[i]["Company"] \in CompanyNames
              /\ \A col \in {"Number of Conversations", "Number of Tool Calls",
                             "Success Count", "Failure Count"} :
                    /\ col \in DOMAIN company_df.rows[i]
                    /\ company_df.rows[i][col] \in Int

\* Three companies, none on the denylist, have one row each.
C8_Witness ==
    /\ CompanyReturned
    /\ Len(company_df.rows) = 3
    /\ CompaniesIn(company_df) = {Acme, ACME, Testing}

\* C9: Success Count and Failure Count of a row are the sums of success_count
\* and failure_count over all kept records of the company, one term a record.
C9_SuccessFailureSums ==
    CompanyReturned =>
        \A i \in DOMAIN company_df.rows :
            LET J == TracesOf(company_df.rows[i]["Company"])
            IN  /\ company_df.rows[i]["Success Count"]
                     = SumOf([j \in J |-> traces[j].success_count], J)
                /\ company_df.rows[i]["Failure Count"]
                     = SumOf([j \in J |-> traces[j].failure_count], J)

\* Two records of one conversation, each with 2 successes and 1 failure, are
\* reported as 4 successes and 2 failures.
C9_Witness ==
    /\ CompanyReturned
    /\ \E i \in DOMAIN company_df.rows :
          /\ company_df.rows[i]["Number of Conversations"] = 1
          /\ company_df.rows[i]["Number of Tool Calls"] = 2
          /\ company_df.rows[i]["Success Count"] = 4
          /\ company_df.rows[i]["Failure Count"] = 2

\* C10: the rows of the company rollup are in descending order of Number of
\* Conversations.
C10_OrderedByConversationsDescending ==
    CompanyReturned =>
        \A i \in 1..(Len(company_df.rows) - 1) :
            company_df.rows[i]["Number of Conversations"]
              >= company_df.rows[i + 1]["Number of Conversations"]

\* A company with two conversations is listed before one with a single one
\* although its name sorts later.
C10_Witness ==
    /\ CompanyReturned
    /\ Len(company_df.rows) = 2
    /\ company_df.rows[1]["Number of Conversations"] = 2
    /\ company_df.rows[2]["Number of Conversations"] = 1
    /\ StrLess(company_df.rows[2]["Company"], company_df.rows[1]["Company"])

\* C11: the rows of the tool rollup are in ascending order of Company and,
\* among the rows of one company, in descending order of Total Calls.
C11_OrderedByCompanyThenTotalDescending ==
    ToolsReturned =>
        \A i \in 1..(Len(tool_df.rows) - 1) :
            \/ StrLess(tool_df.rows[i]["Company"], tool_df.rows[i + 1]["Company"])
            \/ /\ tool_df.rows[i]["Company"] = tool_df.rows[i + 1]["Company"]
               /\ tool_df.rows[i]["Total Calls"] >= tool_df.rows[i + 1]["Total Calls"]

\* Within 'Acme' the tool with two calls is listed before the tool with one
\* call although its name sorts later.
C11_Witness ==
    /\ ToolsReturned
    /\ Len(tool_df.rows) = 2
    /\ tool_df.rows[1]["Company"] = Acme /\ tool_df.rows[2]["Company"] = Acme
    /\ tool_df.rows[1]["Tool Name"] = search /\ tool_df.rows[1]["Total Calls"] = 2
    /\ tool_df.rows[2]["Tool Name"] = create /\ tool_df.rows[2]["Total Calls"] = 1

\* Two names that are not on the denylist and differ in letter case only.
AreCaseVariants(c, d) ==
    /\ c # d
    /\ Lower(c) = Lower(d)
    /\ ~OnDenylist(c)

\* Positions of the rows of the tool rollup for company c and tool n.
ToolRows(c, n) ==
    { i \in DOMAIN tool_df.rows :
        tool_df.rows[i]["Company"] = c /\ tool_df.rows[i]["Tool Name"] = n }

\* C30: grouping is by the exact company name: two records that are not on
\* the denylist and whose names differ in letter case only ('Acme', 'ACME')
\* give two separate rows in each rollup, each with the counts of its own
\* records, and are never merged.
C30_CaseVariantsAreSeparateRows ==
    /\ CompanyReturned =>
           LET names == { traces[j].company_name : j \in KeptTraces }
           IN  \A c, d \in names :
                   AreCaseVariants(c, d)
                   => /\ Cardinality(CompanyRows(c)) = 1
                      /\ Cardinality(CompanyRows(d)) = 1
                      /\ \A i \in CompanyRows(c) :
                             company_df.rows[i]["Number of Tool Calls"]
                                 = Cardinality(TracesOf(c))
    /\ ToolsReturned =>
           LET called == { <<tool_calls[j].company_name, tool_calls[j].tool_name>> :
                             j \in KeptToolCalls }
           IN  \A p, q \in called :
                   (p[2] = q[2] /\ AreCaseVariants(p[1], q[1]))
                   => /\ Cardinality(ToolRows(p[1], p[2])) = 1
                      /\ Cardinality(ToolRows(q[1], q[2])) = 1
                      /\ \A i \in ToolRows(p[1], p[2]) :
                             tool_df.rows[i]["Total Calls"]
                                 = Cardinality(ToolCallsOf(p[1], p[2]))

C30_Witness ==
    /\ CompanyReturned
    /\ Len(traces) = 3
    /\ traces[1].company_name = Acme
    /\ traces[2].company_name = ACME
    /\ traces[3].company_name = Acme
    /\ Len(company_df.rows) = 2
    /\ \A i \in CompanyRows(Acme) : company_df.rows[i]["Number of Tool Calls"] = 2
    /\ \A i \in CompanyRows(ACME) : company_df.rows[i]["Number of Tool Calls"] = 1

(***************************************************************************)
(* fetch_traces_by_company: the loop over the traces of one page           *)
(* (src/langfuse_client.py, lines 305-408).                                *)
(*                                                                         *)
(* A decoded JSON value is a record tagged with its Python type:           *)
(*   [t |-> "null"], [t |-> "str", s |-> characters], [t |-> "int", n |-> *)
(*   number], [t |-> "dict", d |-> function from keys to values].          *)
(* A key that is missing from a JSON object is missing from DOMAIN d.      *)
(***************************************************************************)

None == [t |-> "null"]

JStr(s) == [t |-> "str", s |-> s]

JInt(n) == [t |-> "int", n |-> n]

JDict(d) == [t |-> "dict", d |-> d]

JList(l) == [t |-> "list", l |-> l]

JBool(b) == [t |-> "bool", b |-> b]

\* {}
EmptyDict == JDict(<<>>)

\* bool(v)
Truthy(v) ==
    CASE v.t = "null" -> FALSE
      [] v.t = "str"  -> v.s # <<>>
      [] v.t = "int"  -> v.n # 0
      [] v.t = "dict" -> DOMAIN v.d # {}
      [] v.t = "list" -> v.l # <<>>
      [] v.t = "bool" -> v.b

\* a or b
Or(a, b) == IF Truthy(a) THEN a ELSE b

\* obj.get(key, default) on a dict
DictGet(obj, key, default) ==
    IF key \in DOMAIN obj.d THEN obj.d[key] ELSE default

\* The decimal digits of a string of digits, as a number.
RECURSIVE ParseDigits(_, _)
ParseDigits(s, acc) ==
    IF s = <<>> THEN acc
    ELSE ParseDigits(Tail(s), 10 * acc + (Ord(s[1]) - Ord("0")))

IsDigits(s) ==
    /\ s # <<>>
    /\ \A i \in 1..Len(s) : Ord("0") <= Ord(s[i]) /\ Ord(s[i]) <= Ord("9")

\* The strings int() accepts: decimal digits after an optional sign.
IsIntegerText(s) ==
    /\ s # <<>>
    /\ IF s[1] \in {"+", "-"} THEN IsDigits(Tail(s)) ELSE IsDigits(s)

\* int(s) of such a string.
IntOfText(s) ==
    CASE s[1] = "-" -> 0 - ParseDigits(Tail(s), 0)
      [] s[1] = "+" -> ParseDigits(Tail(s), 0)
      [] OTHER      -> ParseDigits(s, 0)

\* int(v) if v else 0, with ValueError and TypeError giving 0 (lines 392-399)
ToCount(v) ==
    IF ~Truthy(v) THEN 0
    ELSE CASE v.t = "int"  -> v.n
           [] v.t = "str"  -> IF IsIntegerText(v.s) THEN IntOfText(v.s) ELSE 0
           [] v.t = "dict" -> 0

NoneText == <<"N","o","n","e">>

\* str(v) of a string or of None
StrOf(v) ==
    CASE v.t = "str"  -> v.s
      [] v.t = "null" -> NoneText

\* A variant of UnknownCompany that is not on the denylist.
UnknownCompanyUnlisted == <<"U","n","k","n","o","w","n">>

UnknownCompany ==
    <<"U","n","k","n","o","w","n"," ","C","o","m","p","a","n","y">>

TracePrefix == <<"t","r","a","c","e","_">>

\* trace.get('metadata', {}) or {}
trace_metadata(trace) == Or(DictGet(trace, "metadata", EmptyDict), EmptyDict)

\* trace.get('id', '')
trace_id(trace) == DictGet(trace, "id", JStr(<<>>))

\* A variant of conversation_id that looks at the session id first.
conversation_id_session_first(trace) ==
    Or(DictGet(trace, "session_id", None),
       Or(DictGet(trace, "sessionId", None),
          Or(DictGet(trace_metadata(trace), "conversation_id", None),
             Or(DictGet(trace_metadata(trace), "conversationId", None),
                None))))

\* The chain of "or" of lines 313-319, on a trace whose metadata is a dict.
conversation_id(trace) ==
    Or(DictGet(trace_metadata(trace), "conversation_id", None),
       Or(DictGet(trace_metadata(trace), "conversationId", None),
          Or(DictGet(trace, "session_id", None),
             Or(DictGet(trace, "sessionId", None),
                None))))

\* The chain of "or" of lines 344-349.
company_name(metadata) ==
    Or(DictGet(metadata, "company_name", None),
       Or(DictGet(metadata, "companyName", None),
          Or(DictGet(metadata, "company", None),
             JStr(UnknownCompany))))

\* metadata.tools of lines 373-377: the pair (success_count, failure_count)
\* before the conversion to integers.
tools_counts(metadata) ==
    LET tools_data == DictGet(metadata, "tools", EmptyDict)
    IN  IF tools_data.t = "dict"
        THEN << Or(DictGet(tools_data, "successful", JInt(0)), JInt(0)),
                Or(DictGet(tools_data, "failed", JInt(0)), JInt(0)) >>
        ELSE << JInt(0), JInt(0) >>

\* str.replace('Z', '+00:00')
RECURSIVE ReplaceZ(_)
ReplaceZ(s) ==
    IF s = <<>> THEN <<>>
    ELSE (IF s[1] = "Z" THEN <<"+","0","0",":","0","0">> ELSE <<s[1]>>)
             \o ReplaceZ(Tail(s))

\* The characters of s at the positions ps are decimal digits.
DigitsAt(s, ps) ==
    \A i \in ps : Ord("0") <= Ord(s[i]) /\ Ord(s[i]) <= Ord("9")

\* The strings datetime.fromisoformat accepts, among those of the forms
\* YYYY-MM-DD, YYYY-MM-DDThh:mm:ss and YYYY-MM-DDThh:mm:ss+hh:mm.
IsIsoFormat(s) ==
    /\ Len(s) \in {10, 19, 25}
    /\ DigitsAt(s, {1, 2, 3, 4, 6, 7, 9, 10})
    /\ s[5] = "-" /\ s[8] = "-"
    /\ Len(s) >= 19 =>
           /\ DigitsAt(s, {12, 13, 15, 16, 18, 19})
           /\ s[14] = ":" /\ s[17] = ":"
    /\ Len(s) = 25 =>
           /\ s[20] \in {"+", "-"}
           /\ DigitsAt(s, {21, 22, 24, 25})
           /\ s[23] = ":"

\* datetime.fromisoformat(s): the date, the time of day (midnight when the
\* string has none) and the UTC offset ("naive" when the string has none).
FromIsoFormat(s) ==
    [kind   |-> "datetime",
     date   |-> SubSeq(s, 1, 10),
     time   |-> IF Len(s) >= 19 THEN SubSeq(s, 12, 19)
                ELSE <<"0","0",":","0","0",":","0","0">>,
     offset |-> IF Len(s) = 25 THEN SubSeq(s, 20, 25) ELSE <<>>]

\* datetime.fromtimestamp(seconds): a naive local time.
FromTimestamp(seconds) == [kind |-> "datetime", epoch |-> seconds]

\* datetime.now()
Now == [kind |-> "datetime", now |-> TRUE]

\* Line 311: trace.get('timestamp') or trace.get('createdAt') or
\* trace.get('created_at')
trace_timestamp(trace) ==
    Or(DictGet(trace, "timestamp", None),
       Or(DictGet(trace, "createdAt", None),
          DictGet(trace, "created_at", None)))

\* Lines 359-368: timestamp = trace_timestamp or datetime.now(); a string
\* is parsed as ISO-8601 after replace('Z', '+00:00'), else as
\* float seconds, else it is the current time; a value that is not a string
\* is kept as it is.
ParseTimestamp(value) ==
    IF ~Truthy(value) THEN Now
    ELSE IF value.t # "str" THEN value
    ELSE IF IsIsoFormat(ReplaceZ(value.s))
         THEN FromIsoFormat(ReplaceZ(value.s))
         ELSE IF IsIntegerText(ReplaceZ(value.s))
              THEN FromTimestamp(IntOfText(ReplaceZ(value.s)))
              ELSE Now

\* The outcome of one pass of the loop body that raised.
AttributeError == [raised |-> TRUE]

\* One pass of the body of "for trace in batch": the record it appends, or
\* the exception it raises.  A trace that is not a JSON object has none of
\* the attributes getattr asks for, so every field takes its default; a
\* JSON object whose metadata is neither an object nor falsy has no .get
\* (line 314).
NormalizeTrace(trace) ==
    IF trace.t = "dict"
    THEN IF trace_metadata(trace).t # "dict"
         THEN AttributeError
         ELSE [raised          |-> FALSE,
               company_name    |-> StrOf(company_name(trace_metadata(trace))),
               conversation_id |->
                   IF Truthy(conversation_id(trace))
                   THEN StrOf(conversation_id(trace))
                   ELSE TracePrefix \o StrOf(trace_id(trace)),
               trace_id        |-> StrOf(trace_id(trace)),
               timestamp       |-> ParseTimestamp(trace_timestamp(trace)),
               success_count   |-> ToCount(tools_counts(trace_metadata(trace))[1]),
               failure_count   |-> ToCount(tools_counts(trace_metadata(trace))[2])]
    ELSE [raised          |-> FALSE,
          company_name    |-> UnknownCompany,
          conversation_id |-> TracePrefix,
          trace_id        |-> <<>>,
          timestamp       |-> Now,
          success_count   |-> 0,
          failure_count   |-> 0]

\* The flat record of lines 401-408.
RecordOf(normalized) ==
    [company_name    |-> normalized.company_name,
     conversation_id |-> normalized.conversation_id,
     trace_id        |-> normalized.trace_id,
     timestamp       |-> normalized.timestamp,
     success_count   |-> normalized.success_count,
     failure_count   |-> normalized.failure_count]

\* for trace in batch: ... traces.append(...), from the records in acc:
\* the records appended and whether the loop raised.
RECURSIVE ForTraceInBatch(_, _)
ForTraceInBatch(rest, acc) ==
    IF rest = <<>> THEN [records |-> acc, raised |-> FALSE]
    ELSE IF NormalizeTrace(Head(rest)).raised
         THEN [records |-> acc, raised |-> TRUE]
         ELSE ForTraceInBatch(Tail(rest),
                              Append(acc, RecordOf(NormalizeTrace(Head(rest)))))

(***************************************************************************)
(* The traces a page may hold                                              *)
(***************************************************************************)

\* A key that the JSON object does not have.
Absent == [absent |-> TRUE]

\* The JSON object with the keys of f whose value is not Absent.
Object(f) == JDict([k \in { j \in DOMAIN f : f[j] # Absent } |-> f[k]])

t1 == <<"t","1">>
t2 == <<"t","2">>
s1 == <<"s","1">>
s2 == <<"s","2">>
note == <<"n","o","t","e">>

\* Traces that differ in the company keys of their metadata.
CompanyTraces ==
    { Object(("id" :> JStr(t1)) @@
             ("metadata" :> Object(("company_name" :> a) @@
                                   ("companyName" :> b) @@
                                   ("company" :> c)))) :
      a \in {Absent, JStr(<<>>), JStr(Acme)},
      b \in {Absent, JStr(ACME)},
      c \in {Absent, JStr(Testing)} }

\* Traces that differ in the places a conversation id is looked for.
ConversationTraces ==
    { Object(("id" :> JStr(t1)) @@
             ("session_id" :> c) @@
             ("sessionId" :> d) @@
             ("metadata" :> Object(("conversation_id" :> a) @@
                                   ("conversationId" :> b)))) :
      a \in {Absent, JStr(<<>>), JStr(c1)},
      b \in {Absent, JStr(c2)},
      c \in {Absent, JStr(s1)},
      d \in {Absent, JStr(s2)} }

\* Traces that differ in their id and have no conversation id.
IdTraces ==
    { Object(("id" :> i) @@ ("metadata" :> EmptyDict)) :
      i \in {Absent, None, JStr(t2)} }

\* Traces that differ in metadata.tools.
ToolsTraces ==
    { Object(("id" :> JStr(t1)) @@
             ("metadata" :> Object(("company_name" :> JStr(Acme)) @@
                                   ("tools" :> t)))) :
      t \in { None, JStr(note),
              Object(("successful" :> JInt(2)) @@ ("failed" :> JInt(1))),
              Object(("successful" :> JStr(<<"3">>)) @@ ("failed" :> JStr(note))),
              Object(("successful" :> None) @@ ("failed" :> EmptyDict)),
              Object(("successful" :> JInt(0 - 1)) @@ ("failed" :> JStr(<<"-","2">>))) } }

IsoZ ==
    <<"2","0","2","4","-","0","1","-","0","2","T",
      "0","3",":","0","4",":","0","5","Z">>

IsoDate == <<"2","0","2","4","-","0","1","-","0","2">>

EpochText == <<"8","6","4","0","0">>

\* Traces that differ in the places a timestamp is looked for.
TimestampTraces ==
    { Object(("id" :> JStr(t1)) @@ ("timestamp" :> ts)) :
      ts \in {JStr(IsoZ), JStr(EpochText), JStr(note), JInt(86400)} }
    \cup { Object(("id" :> JStr(t1)) @@ ("timestamp" :> ts) @@
                  ("createdAt" :> JStr(IsoDate))) :
           ts \in {Absent, None} }

\* Traces whose metadata is not a JSON object, and elements of the page that
\* are not JSON objects.
OddTraces ==
    { Object(("id" :> JStr(t1)) @@ ("metadata" :> m)) :
      m \in {Absent, None, JStr(<<>>), JStr(note), JInt(7)} }
    \cup { None, JStr(note) }

RawTraces ==
    CompanyTraces \cup ConversationTraces \cup IdTraces \cup ToolsTraces
        \cup TimestampTraces \cup OddTraces

(***************************************************************************)
(* Specification of the record loop: a behaviour is the loop over one     *)
(* page.                                                                   *)
(***************************************************************************)

InitRecords ==
    /\ batch \in ListsUpTo(RawTraces, MaxBatch)
    /\ appended = <<>>
    /\ batch_pc = "pending"
    /\ AggIdle
    /\ FetchIdle
    /\ CacheIdle
    /\ AppIdle
    /\ DetailIdle
    /\ RunIdle

\* for trace in batch: ... traces.append({...})
ProcessBatch ==
    /\ batch_pc = "pending"
    /\ appended' = ForTraceInBatch(batch, <<>>).records
    /\ batch_pc' = IF ForTraceInBatch(batch, <<>>).raised
                   THEN "raised" ELSE "completed"
    /\ UNCHANGED batch
    /\ UNCHANGED <<aggVars, fetchVars, cacheVars, appVars, detailVars, runVars>>

NextRecords == ProcessBatch

SpecRecords == InitRecords /\ [][NextRecords]_vars

(***************************************************************************)
(* What the properties of the record loop are stated with                  *)
(***************************************************************************)

\* The keys of the metadata of a trace, when the trace and its metadata are
\* JSON objects; no key otherwise.
MetadataKeys(trace) ==
    IF trace.t = "dict" /\ "metadata" \in DOMAIN trace.d
                        /\ trace.d["metadata"].t = "dict"
    THEN trace.d["metadata"].d
    ELSE <<>>

\* obj has a non-empty string under key.
NonEmptyAt(obj, key) ==
    /\ key \in DOMAIN obj
    /\ obj[key].t = "str"
    /\ obj[key].s # <<>>

\* The places a value is looked for, in order: the object and the key.
CompanyPlaces(trace) ==
    << <<MetadataKeys(trace), "company_name">>,
       <<MetadataKeys(trace), "companyName">>,
       <<MetadataKeys(trace), "company">> >>

ConversationPlaces(trace) ==
    << <<MetadataKeys(trace), "conversation_id">>,
       <<MetadataKeys(trace), "conversationId">>,
       <<IF trace.t = "dict" THEN trace.d ELSE <<>>, "session_id">>,
       <<IF trace.t = "dict" THEN trace.d ELSE <<>>, "sessionId">> >>

\* The places of the list that hold a non-empty string.
Filled(places) ==
    { i \in DOMAIN places : NonEmptyAt(places[i][1], places[i][2]) }

\* The string of the first filled place.
FirstFilled(places) ==
    LET i == CHOOSE j \in Filled(places) : \A k \in Filled(places) : j <= k
    IN  places[i][1][places[i][2]].s

\* The loop over the page has ended, by completing or by raising.
BatchProcessed == batch_pc # "pending"

(***************************************************************************)
(* Properties of the record loop                                           *)
(***************************************************************************)

\* C12: every trace of a page the upstream API returned yields exactly one
\* output record; its company_name is the first non-empty value among the
\* metadata keys company_name, companyName, company, and 'Unknown Company'
\* when the metadata has none of them or has them empty.
C12_EveryTraceYieldsOneRecordWithItsCompany ==
    BatchProcessed =>
        /\ Len(appended) = Len(batch)
        /\ \A i \in DOMAIN batch :
               appended[i].company_name =
                   IF Filled(CompanyPlaces(batch[i])) = {}
                   THEN UnknownCompany
                   ELSE FirstFilled(CompanyPlaces(batch[i]))

\* C13: the conversation_id of each output record is the first non-empty
\* value among metadata.conversation_id, metadata.conversationId, the
\* trace's session_id and its sessionId, and 'trace_' followed by the trace
\* id when there is none; two records synthesized from different trace ids
\* have different conversation ids.
C13_ConversationIdOfEachRecord ==
    BatchProcessed =>
        /\ \A i \in DOMAIN appended :
               appended[i].conversation_id =
                   IF Filled(ConversationPlaces(batch[i])) = {}
                   THEN TracePrefix \o appended[i].trace_id
                   ELSE FirstFilled(ConversationPlaces(batch[i]))
        /\ \A i, j \in DOMAIN appended :
               ( /\ Filled(ConversationPlaces(batch[i])) = {}
                 /\ Filled(ConversationPlaces(batch[j])) = {}
                 /\ appended[i].trace_id # appended[j].trace_id )
               => appended[i].conversation_id # appended[j].conversation_id

C13_Witness ==
    /\ batch_pc = "completed"
    /\ Len(appended) = 2
    /\ batch[1].t = "dict"
    /\ NonEmptyAt(batch[1].d, "session_id")
    /\ NonEmptyAt(batch[1].d, "sessionId")
    /\ "conversation_id" \in DOMAIN MetadataKeys(batch[1])
    /\ appended[1].conversation_id = s1
    /\ Filled(ConversationPlaces(batch[2])) = {}
    /\ appended[2].trace_id = t2
    /\ appended[2].conversation_id = TracePrefix \o t2

\* A point in time: what datetime.fromisoformat, datetime.fromtimestamp and
\* datetime.now return.
IsPointInTime(timestamp) ==
    /\ "kind" \in DOMAIN timestamp
    /\ timestamp.kind = "datetime"

\* The value of metadata.tools.<key> of a trace, None when there is none.
ToolsValue(trace, key) ==
    IF /\ "tools" \in DOMAIN MetadataKeys(trace)
       /\ MetadataKeys(trace)["tools"].t = "dict"
       /\ key \in DOMAIN MetadataKeys(trace)["tools"].d
    THEN MetadataKeys(trace)["tools"].d[key]
    ELSE None

\* C21: normalizing one record of a fetched page never raises, whatever the
\* shape of its fields: every record of the page yields exactly one output
\* record, so a malformed record never makes other records of its page
\* miss from the result.
C21_NormalizingNeverRaises ==
    BatchProcessed =>
        /\ batch_pc = "completed"
        /\ Len(appended) = Len(batch)

\* C22: in every record, success_count and failure_count are non-negative
\* integers, and are 0 when metadata.tools.successful / failed is missing,
\* null or cannot be coerced to an integer.
C22_CountsAreNonNegativeIntegers ==
    BatchProcessed =>
        \A i \in DOMAIN appended :
            /\ appended[i].success_count \in Nat
            /\ appended[i].failure_count \in Nat
            /\ ToolsValue(batch[i], "successful").t \in {"null", "dict"}
                   => appended[i].success_count = 0
            /\ ToolsValue(batch[i], "failed").t \in {"null", "dict"}
                   => appended[i].failure_count = 0

\* C23: the timestamp of every record is a point in time, whether the
\* upstream value is a string, a number, null or absent.
C23_TimestampIsPointInTime ==
    BatchProcessed =>
        \A i \in DOMAIN appended : IsPointInTime(appended[i].timestamp)

(***************************************************************************)
(* fetch_traces_by_company: the call and its page loop                     *)
(* (src/langfuse_client.py, lines 168-303 and 410-447).                    *)
(*                                                                         *)
(* The page loop is followed with the page size and the page limit of the  *)
(* code.  The batch of a page is kept as its length and the position of    *)
(* the first trace whose normalization raises (0 when none does, see       *)
(* NormalizeTrace); the list traces is kept as the number of records each  *)
(* page appended to it.                                                    *)
(***************************************************************************)

page_size == 50

max_pages == 100

\* The batches a page may hold: empty, short or full, with or without a
\* first trace that raises.
Batches ==
    { b \in [count : {0, 1, page_size - 1, page_size}, bad : {0, 1}] :
        b.bad <= b.count }

\* The value under 'meta' of a response to the request for page p.
Metas(p) ==
    {Absent, None}
        \cup { Object(("page" :> a) @@ ("totalPages" :> t)) :
               a \in {Absent, JInt(p)},
               t \in {Absent, JInt(p), JInt(p + 1)} }

\* The bodies of a response with status 200: not JSON, a JSON value that is
\* neither an object nor a list, a list, an object.  On a body that is not
\* JSON response.json() raises requests' JSONDecodeError, which is a
\* RequestException from requests 2.27 on and a plain ValueError before.
Bodies(p) ==
    { [json |-> "undecodable", error |-> e] :
      e \in {"RequestException", "Exception"} }
        \cup { [json |-> "scalar"] }
        \cup { [json |-> "list", data |-> b] : b \in Batches }
        \cup { [json |-> "dict", data |-> b, meta |-> m] :
               b \in Batches, m \in Metas(p) }

\* What requests.get does for page p: it raises a RequestException, or it
\* returns a response.
Responses(p) ==
    { [get |-> "raised"] }
        \cup { [get |-> "returned", status_code |-> c] : c \in {401, 404, 500} }
        \cup { [get |-> "returned", status_code |-> 200, body |-> b] :
               b \in Bodies(p) }

\* A variant of has_more that ignores the page counts of meta.
has_more_by_length(body, p) == body.data.count >= page_size

\* has_more of lines 283-291, for a body that decodes to a list or to an
\* object whose meta is an object or is missing.
has_more(body, p) ==
    IF /\ body.json = "dict"
       /\ body.meta # Absent
       /\ "page" \in DOMAIN body.meta.d
    THEN DictGet(body.meta, "page", JInt(p)).n
             < DictGet(body.meta, "totalPages", JInt(1)).n
    ELSE body.data.count >= page_size

\* Lines 275-291 on a response with status 200: which exception is raised,
\* if any, and the batch.
Decode(resp) ==
    CASE resp.body.json = "undecodable" ->
             [raises |-> resp.body.error, batch |-> [count |-> 0, bad |-> 0]]
      [] resp.body.json = "scalar" ->
             [raises |-> "nothing", batch |-> [count |-> 0, bad |-> 0]]
      [] resp.body.json = "list" ->
             [raises |-> "nothing", batch |-> resp.body.data]
      [] resp.body.json = "dict" ->
             IF resp.body.meta = None
             THEN [raises |-> "Exception", batch |-> resp.body.data]
             ELSE [raises |-> "nothing", batch |-> resp.body.data]

\* The number of records the loop over the batch appends.
RecordsAppended(b) == IF b.bad = 0 THEN b.count ELSE b.bad - 1

\* traces after the loop over the batch
Extend(list, b) ==
    IF RecordsAppended(b) = 0 THEN list ELSE Append(list, RecordsAppended(b))

\* A variant of AfterException that asks for the same page again.
AfterExceptionRetry(p) ==
    IF p = 1 THEN [exit |-> "first page error", page |-> p]
    ELSE [exit |-> "none", page |-> p]

\* except Exception (lines 424-432)
AfterException(p) ==
    IF p = 1 THEN [exit |-> "first page error", page |-> p]
    ELSE IF p + 1 > max_pages
         THEN [exit |-> "page limit", page |-> p + 1]
         ELSE [exit |-> "none", page |-> p + 1]

\* A variant of AfterRequestException that goes on with the next page.
AfterRequestExceptionContinue(p) ==
    IF p + 1 > max_pages
    THEN [exit |-> "page limit", page |-> p + 1]
    ELSE [exit |-> "none", page |-> p + 1]

\* except requests.exceptions.RequestException (lines 421-423)
AfterRequestException(p) == [exit |-> "request exception", page |-> p]

\* Lines 410-419, after the loop over a batch completed.
AfterPage(p, more, b) ==
    IF ~more \/ b.count < page_size
    THEN [exit |-> "no more pages", page |-> p]
    ELSE IF p + 1 > max_pages
         THEN [exit |-> "page limit", page |-> p + 1]
         ELSE [exit |-> "none", page |-> p + 1]

\* One pass of the body of the while loop once requests.get has returned or
\* raised: the statement that exits the loop ("none" when the loop goes
\* on), the next value of page and the next value of traces.
Iteration(resp, p, list) ==
    IF resp.get = "raised"
    THEN AfterRequestException(p) @@ [traces |-> list]
    ELSE IF resp.status_code # 200
    THEN [exit |-> "status", page |-> p, traces |-> list]
    ELSE IF Decode(resp).raises = "RequestException"
    THEN AfterRequestException(p) @@ [traces |-> list]
    ELSE IF Decode(resp).raises = "Exception"
    THEN AfterException(p) @@ [traces |-> list]
    ELSE IF Decode(resp).batch.count = 0
    THEN [exit |-> "empty batch", page |-> p, traces |-> list]
    ELSE IF Decode(resp).batch.bad # 0
    THEN AfterException(p) @@ [traces |-> Extend(list, Decode(resp).batch)]
    ELSE AfterPage(p, has_more(resp.body, p), Decode(resp).batch)
             @@ [traces |-> Extend(list, Decode(resp).batch)]

\* The iteration followed by the test of the while statement (line 221).
LoopStep(resp, p, list) ==
    IF /\ Iteration(resp, p, list).exit = "none"
       /\ Iteration(resp, p, list).page > max_pages
    THEN [Iteration(resp, p, list) EXCEPT !.exit = "while condition"]
    ELSE Iteration(resp, p, list)

(***************************************************************************)
(* Specification of the fetcher: a behaviour is one call of                *)
(* fetch_traces_by_company against one upstream.                           *)
(***************************************************************************)

InitFetch ==
    /\ fetch_pc = "call"
    /\ client \in {"Langfuse", "None"}
    /\ ascii_keys \in BOOLEAN
    /\ page = 1
    /\ collected = <<>>
    /\ requested = <<>>
    /\ response = NoResponse
    /\ loop_exit = "not entered"
    /\ result = <<>>
    /\ AggIdle
    /\ RecordsIdle
    /\ CacheIdle
    /\ AppIdle
    /\ DetailIdle
    /\ RunIdle

\* Lines 168-169: without a client the call returns the empty list.
ReturnWithoutClient ==
    /\ fetch_pc = "call"
    /\ client = "None"
    /\ fetch_pc' = "returned"
    /\ result' = <<>>
    /\ UNCHANGED <<client, ascii_keys, page, collected, requested, response,
                   loop_exit>>
    /\ UNCHANGED <<aggVars, recordVars, cacheVars, appVars, detailVars, runVars>>

\* Lines 171-218 with keys that encode: the loop is entered.
Setup ==
    /\ fetch_pc = "call"
    /\ client # "None"
    /\ ascii_keys
    /\ fetch_pc' = "request"
    /\ page' = 1
    /\ collected' = <<>>
    /\ loop_exit' = "none"
    /\ UNCHANGED <<client, ascii_keys, requested, response, result>>
    /\ UNCHANGED <<aggVars, recordVars, cacheVars, appVars, detailVars, runVars>>

\* Lines 171-218 with a key that has a character outside ASCII: line 212
\* raises UnicodeEncodeError, the handler of line 443 reports it and calls
\* st.debug (line 446), which streamlit does not have: AttributeError leaves
\* the function.
SetupRaises ==
    /\ fetch_pc = "call"
    /\ client # "None"
    /\ ~ascii_keys
    /\ fetch_pc' = "raised"
    /\ UNCHANGED <<client, ascii_keys, page, collected, requested, response,
                   loop_exit, result>>
    /\ UNCHANGED <<aggVars, recordVars, cacheVars, appVars, detailVars, runVars>>

\* Line 262: requests.get for the current page.
Request ==
    /\ fetch_pc = "request"
    /\ page <= max_pages
    /\ requested' = Append(requested, page)
    /\ response' \in Responses(page)
    /\ fetch_pc' = "response"
    /\ UNCHANGED <<client, ascii_keys, page, collected, loop_exit, result>>
    /\ UNCHANGED <<aggVars, recordVars, cacheVars, appVars, detailVars, runVars>>

\* Lines 264-432 for the response in flight and, when the loop exits, lines
\* 434-441.
Process ==
    /\ fetch_pc = "response"
    /\ page' = LoopStep(response, page, collected).page
    /\ collected' = LoopStep(response, page, collected).traces
    /\ loop_exit' = LoopStep(response, page, collected).exit
    /\ response' = NoResponse
    /\ IF LoopStep(response, page, collected).exit = "none"
       THEN /\ fetch_pc' = "request"
            /\ UNCHANGED result
       ELSE /\ fetch_pc' = "returned"
            /\ result' = LoopStep(response, page, collected).traces
    /\ UNCHANGED <<client, ascii_keys, requested>>
    /\ UNCHANGED <<aggVars, recordVars, cacheVars, appVars, detailVars, runVars>>

NextFetch ==
    \/ ReturnWithoutClient
    \/ Setup
    \/ SetupRaises
    \/ Request
    \/ Process

SpecFetch == InitFetch /\ [][NextFetch]_vars

(***************************************************************************)
(* What the properties of the fetcher are stated with                      *)
(***************************************************************************)

\* The request in flight was answered with status 200.
Status200 ==
    /\ fetch_pc = "response"
    /\ response.get = "returned"
    /\ response.status_code = 200

\* The request in flight failed: requests.get raised, or the status is not
\* 200.
RequestFailed ==
    /\ fetch_pc = "response"
    /\ \/ response.get = "raised"
       \/ response.get = "returned" /\ response.status_code # 200

\* The page in flight has status 200 and cannot be processed: its body is
\* not JSON, its meta is not an object, or one of its traces raises.
PageRaises ==
    /\ Status200
    /\ \/ response.body.json = "undecodable"
       \/ response.body.json = "dict" /\ response.body.meta = None
       \/ /\ response.body.json \in {"list", "dict"}
          /\ response.body.data.bad # 0

\* The number of traces of the page in flight.
BatchLength ==
    IF Status200 /\ response.body.json \in {"list", "dict"}
    THEN response.body.data.count
    ELSE 0

\* The server reported that more pages are available: by meta.page and
\* meta.totalPages when meta.page is there, by a full page otherwise.
ServerReportsMore ==
    IF /\ Status200
       /\ response.body.json = "dict"
       /\ response.body.meta \notin {Absent, None}
       /\ "page" \in DOMAIN response.body.meta.d
    THEN /\ "totalPages" \in DOMAIN response.body.meta.d
         /\ response.body.meta.d["page"].n < response.body.meta.d["totalPages"].n
    ELSE BatchLength >= 50

\* The next step asks for the next page.
NextPageRequested == fetch_pc' = "request" /\ page' = page + 1

\* list is an initial part of longer.
IsPrefix(list, longer) ==
    /\ Len(list) <= Len(longer)
    /\ \A i \in DOMAIN list : list[i] = longer[i]

(***************************************************************************)
(* Properties of the fetcher                                               *)
(***************************************************************************)

\* C14: fetch_traces_by_company never propagates an error to its caller,
\* and it returns the empty list when the fetch fails as a whole: without a
\* client, when the setup code before the page loop fails, and when the
\* first request fails.
C14_NeverRaisesAndEmptyOnWholeFailure ==
    /\ fetch_pc # "raised"
    /\ ( /\ fetch_pc = "returned"
         /\ \/ client = "None"
            \/ ~ascii_keys
            \/ requested = <<1>> /\ loop_exit \in {"request exception", "status"} )
       => result = <<>>

\* C17: the pages requested in one run are 1, 2, ..., k in this order, each
\* once, with k <= 100: no request is issued once 100 requests were.
C17_PagesInOrderAtMostHundred ==
    /\ \A i \in DOMAIN requested : requested[i] = i
    /\ Len(requested) <= 100
    /\ fetch_pc = "request" => Len(requested) < 100

C17_Witness ==
    /\ fetch_pc = "returned"
    /\ loop_exit = "page limit"
    /\ Len(requested) = 100
    /\ requested[100] = 100
    /\ Len(result) = 100

\* C18: after page p < 100 came with status 200 and was processed without
\* error, page p + 1 is requested exactly when the server reported more
\* pages and the batch has at least 50 records; a page with fewer than 50
\* records ends the fetch.
C18_NextPageIffMoreAndFull ==
    [][ (Status200 /\ ~PageRaises /\ page < 100) =>
            /\ NextPageRequested <=> (ServerReportsMore /\ BatchLength >= 50)
            /\ BatchLength < 50 => fetch_pc' = "returned" ]_vars

C18_Witness ==
    /\ fetch_pc = "response"
    /\ requested = <<1, 2>>
    /\ collected = <<50>>
    /\ Status200
    /\ ~PageRaises
    /\ BatchLength = 50
    /\ ~ServerReportsMore

\* C19: when the request for page k raises or comes back with a status
\* other than 200, no further page is requested and the call returns the
\* records of the pages before k: none when k = 1.
C19_RequestFailureEndsFetch ==
    [][ /\ RequestFailed =>
            /\ fetch_pc' = "returned"
            /\ requested' = requested
            /\ result' = collected
            /\ page = 1 => result' = <<>>
        /\ fetch_pc = "returned" => requested' = requested ]_vars

C19_Witness ==
    /\ fetch_pc = "returned"
    /\ loop_exit = "status"
    /\ requested = <<1, 2, 3>>
    /\ result = <<50, 50>>

\* C20: when processing page k >= 2 raises, the fetch goes on: the records
\* of the earlier pages stay and, when k < 100, page k + 1 is requested
\* next; when processing page 1 raises, the fetch ends.
C20_PageErrorSkipsPage ==
    [][ PageRaises =>
            IF page = 1
            THEN fetch_pc' = "returned"
            ELSE /\ IsPrefix(collected, collected')
                 /\ page < 100 => NextPageRequested ]_vars

(***************************************************************************)
(* The memoized fetchers: @st.cache_data(ttl=300) on                       *)
(* fetch_traces_by_company and fetch_tool_calls_by_company                 *)
(* (src/langfuse_client.py, lines 150 and 526) and the refresh button      *)
(* (src/app.py, lines 37-40).                                              *)
(*                                                                         *)
(* st.cache_data keeps, for each function, one entry per value of the      *)
(* hashed parameters (start_time, end_time; _client is left out of the     *)
(* key), runs the function body when the entry is missing or older than    *)
(* ttl, and st.cache_data.clear() drops every entry of every function.     *)
(* The calls are followed for a client and keys with which the fetch       *)
(* reaches the upstream, and for time windows of less than one page.       *)
(***************************************************************************)

ttl == 300

\* The time steps and the last time followed.
Ticks == {ttl - 1, ttl}

MaxTime == 2 * ttl

\* The values of (start_time, end_time).
Windows == {"A", "B"}

Fetchers == {"fetch_traces_by_company", "fetch_tool_calls_by_company"}

CacheKeys == Fetchers \X Windows

NoEntry == [stored |-> FALSE]

Entry(value, at) == [stored |-> TRUE, value |-> value, at |-> at]

\* A variant of Fresh for entries that never expire.
FreshForever(entry, t) == entry.stored

\* The entry is there and younger than ttl.
Fresh(entry, t) == entry.stored /\ t - entry.at < ttl

\* The trace lists a fetch may return, by the trace_id of each record: no
\* record, a record with an id, a record whose id is empty.
TraceLists == { <<>>, <<t1>>, << <<>> >> }

\* The requests for the detail of a trace (lines 585-594): one for each
\* record with a trace_id.
DetailRequests(list) == Cardinality({ i \in DOMAIN list : list[i] # <<>> })

\* The tool-call lists fetch_tool_calls_by_company may return, by the tool
\* name of each record.
ToolCallLists(list) ==
    IF DetailRequests(list) = 0 THEN { <<>> } ELSE { <<>>, <<search>> }

\* A call of the memoized fetch_traces_by_company at time t with the cache
\* c: the value returned, the upstream requests issued, whether the value
\* came from the cache, and the cache afterwards.
CallTraces(c, w, t) ==
    IF Fresh(c[<<"fetch_traces_by_company", w>>], t)
    THEN { [value     |-> c[<<"fetch_traces_by_company", w>>].value,
            requests  |-> 0,
            hit       |-> TRUE,
            inner_hit |-> FALSE,
            traces    |-> c[<<"fetch_traces_by_company", w>>].value,
            cache     |-> c] }
    ELSE { [value     |-> v,
            requests  |-> 1,
            hit       |-> FALSE,
            inner_hit |-> FALSE,
            traces    |-> v,
            cache     |-> [c EXCEPT ![<<"fetch_traces_by_company", w>>] =
                                         Entry(v, t)]] :
           v \in TraceLists }

\* A call of the memoized fetch_tool_calls_by_company: its body calls the
\* memoized fetch_traces_by_company (line 549), returns [] when that list
\* is empty (550-551) and asks for the detail of each trace otherwise.
CallToolCalls(c, w, t) ==
    IF Fresh(c[<<"fetch_tool_calls_by_company", w>>], t)
    THEN { [value     |-> c[<<"fetch_tool_calls_by_company", w>>].value,
            requests  |-> 0,
            hit       |-> TRUE,
            inner_hit |-> FALSE,
            traces    |-> <<>>,
            cache     |-> c] }
    ELSE UNION {
           { [value     |-> v,
              requests  |-> inner.requests + DetailRequests(inner.value),
              hit       |-> FALSE,
              inner_hit |-> inner.hit,
              traces    |-> inner.value,
              cache     |-> [inner.cache EXCEPT
                                ![<<"fetch_tool_calls_by_company", w>>] =
                                    Entry(v, t)]] :
             v \in ToolCallLists(inner.value) } :
           inner \in CallTraces(c, w, t) }

CallFetcher(f, c, w, t) ==
    IF f = "fetch_traces_by_company"
    THEN CallTraces(c, w, t)
    ELSE CallToolCalls(c, w, t)

NotRun == [ran |-> FALSE]

NoCall == [fetcher |-> "none"]

\* The record of the calls that ran a function body, after a call of f.
Ran(before, f, w, t, out) ==
    [k \in CacheKeys |->
        IF k = <<f, w>> /\ ~out.hit
        THEN [ran |-> TRUE, at |-> t, value |-> out.value, cleared |-> FALSE]
        ELSE IF /\ k = <<"fetch_traces_by_company", w>>
                /\ f = "fetch_tool_calls_by_company"
                /\ ~out.hit /\ ~out.inner_hit
        THEN [ran |-> TRUE, at |-> t, value |-> out.traces, cleared |-> FALSE]
        ELSE before[k]]

(***************************************************************************)
(* Specification of the memoization: a behaviour is a session of calls of  *)
(* the two fetchers, with time passing and refreshes in between.           *)
(***************************************************************************)

InitCache ==
    /\ now = 0
    /\ cache = [k \in CacheKeys |-> NoEntry]
    /\ computed = [k \in CacheKeys |-> NotRun]
    /\ last_call = NoCall
    /\ calls = 0
    /\ AggIdle
    /\ RecordsIdle
    /\ FetchIdle
    /\ AppIdle
    /\ DetailIdle
    /\ RunIdle

\* A call fetcher(client, start_time, end_time) through st.cache_data.
Call ==
    /\ calls < MaxCalls
    /\ \E f \in Fetchers, w \in Windows :
           \E out \in CallFetcher(f, cache, w, now) :
               /\ cache' = out.cache
               /\ computed' = Ran(computed, f, w, now, out)
               /\ last_call' = [fetcher  |-> f,
                                window   |-> w,
                                at       |-> now,
                                earlier  |-> computed[<<f, w>>],
                                value    |-> out.value,
                                requests |-> out.requests,
                                hit      |-> out.hit,
                                inner_hit |-> out.inner_hit,
                                traces   |-> out.traces]
    /\ calls' = calls + 1
    /\ UNCHANGED now
    /\ UNCHANGED <<aggVars, recordVars, fetchVars, appVars, detailVars, runVars>>

\* Time passes.
Tick ==
    /\ \E d \in Ticks :
           /\ now + d <= MaxTime
           /\ now' = now + d
    /\ UNCHANGED <<cache, computed, last_call, calls>>
    /\ UNCHANGED <<aggVars, recordVars, fetchVars, appVars, detailVars, runVars>>

\* The refresh button: st.cache_data.clear() (src/app.py, line 38).
Refresh ==
    /\ cache' = [k \in CacheKeys |-> NoEntry]
    /\ computed' = [k \in CacheKeys |->
                       IF computed[k].ran
                       THEN [computed[k] EXCEPT !.cleared = TRUE]
                       ELSE computed[k]]
    /\ UNCHANGED <<now, last_call, calls>>
    /\ UNCHANGED <<aggVars, recordVars, fetchVars, appVars, detailVars, runVars>>

NextCache ==
    \/ Call
    \/ Tick
    \/ Refresh

SpecCache == InitCache /\ [][NextCache]_vars

(***************************************************************************)
(* Properties of the memoization                                           *)
(***************************************************************************)

\* The last call had an earlier call with the same parameters that ran the
\* body less than 300 seconds before, with no refresh in between.
WithinTtlOfComputedCall ==
    /\ last_call.fetcher # "none"
    /\ last_call.earlier.ran
    /\ ~last_call.earlier.cleared
    /\ last_call.at - last_call.earlier.at < 300

\* The last call had an earlier call with the same parameters that ran the
\* body, and the entry has expired or was dropped by a refresh since.
AfterExpiryOrRefresh ==
    /\ last_call.fetcher # "none"
    /\ last_call.earlier.ran
    /\ \/ last_call.earlier.cleared
       \/ last_call.at - last_call.earlier.at >= 300

SecretsKey == <<"S">>

EnvironKey == <<"E">>

\* What the secrets store holds under [langfuse]: a key may be missing (also
\* when there is no secrets file), empty or set.
SecretsConfigs ==
    [public_key : {None, JStr(<<>>), JStr(SecretsKey)},
     secret_key : {None, JStr(<<>>), JStr(SecretsKey)}]

\* What os.getenv gives for the two variables.
EnvironConfigs ==
    [LANGFUSE_PUBLIC_KEY : {None, JStr(<<>>), JStr(EnvironKey)},
     LANGFUSE_SECRET_KEY : {None, JStr(<<>>), JStr(EnvironKey)}]

\* Lines 38-50: the value of the secrets store, else the environment's.
ResolvedKey(from_secrets, from_environ) ==
    IF ~Truthy(from_secrets) THEN from_environ ELSE from_secrets

\* A variant of CredentialsMissing that wants both keys to be missing.
CredentialsMissingBoth(public_key, secret_key) ==
    ~Truthy(public_key) /\ ~Truthy(secret_key)

\* Line 55: if not public_key or not secret_key
CredentialsMissing(public_key, secret_key) ==
    ~Truthy(public_key) \/ ~Truthy(secret_key)

\* get_langfuse_client(): the client, the message of st.error, if any, and
\* the keys the client was made with; constructed tells whether
\* Langfuse(...) returns or raises (lines 63-72).
get_langfuse_client(sec, env, constructed) ==
    IF CredentialsMissing(
           ResolvedKey(sec.public_key, env.LANGFUSE_PUBLIC_KEY),
           ResolvedKey(sec.secret_key, env.LANGFUSE_SECRET_KEY))
    THEN [client |-> "None", error |-> <<"Langfuse credentials not found">>,
          keys |-> <<>>]
    ELSE IF constructed
         THEN [client |-> "Langfuse", error |-> <<>>,
               keys |-> <<ResolvedKey(sec.public_key, env.LANGFUSE_PUBLIC_KEY),
                          ResolvedKey(sec.secret_key, env.LANGFUSE_SECRET_KEY)>>]
         ELSE [client |-> "None",
               error |-> <<"Failed to initialize Langfuse client">>,
               keys |-> <<>>]

\* Lines 192-201 and 554-563: a key of the environment, else the key of
\* the secrets store, '' when the store has none.
FetcherKey(from_environ, from_secrets) ==
    IF Truthy(from_environ) THEN from_environ
    ELSE IF from_secrets = None THEN JStr(<<>>) ELSE from_secrets

\* The public key and the secret key of the Authorization header of the
\* fetchers (lines 211-218 and 573-579).
FetcherKeys(sec, env) ==
    <<FetcherKey(env.LANGFUSE_PUBLIC_KEY, sec.public_key),
      FetcherKey(env.LANGFUSE_SECRET_KEY, sec.secret_key)>>

InitApp ==
    /\ app_pc = "start"
    /\ secrets \in SecretsConfigs
    /\ environ \in EnvironConfigs
    /\ app_client = "None"
    /\ errors = <<>>
    /\ fetch_calls = 0
    /\ upstream = FALSE
    /\ client_keys = <<>>
    /\ request_keys = <<>>
    /\ AggIdle
    /\ RecordsIdle
    /\ FetchIdle
    /\ CacheIdle
    /\ DetailIdle
    /\ RunIdle

\* src/app.py, line 77: client = get_langfuse_client()
GetClient ==
    /\ app_pc = "start"
    /\ \E constructed \in BOOLEAN :
           /\ app_client' = get_langfuse_client(secrets, environ, constructed).client
           /\ errors' = errors \o get_langfuse_client(secrets, environ, constructed).error
           /\ client_keys' = get_langfuse_client(secrets, environ, constructed).keys
    /\ app_pc' = "client"
    /\ UNCHANGED <<secrets, environ, fetch_calls, upstream, request_keys>>
    /\ UNCHANGED <<aggVars, recordVars, fetchVars, cacheVars, detailVars, runVars>>

\* src/app.py, lines 79-82: if client is None: st.error(...); st.stop()
StopWithoutClient ==
    /\ app_pc = "client"
    /\ app_client = "None"
    /\ errors' = Append(errors, "Langfuse client not initialized")
    /\ app_pc' = "stopped"
    /\ UNCHANGED <<secrets, environ, app_client, fetch_calls, upstream,
                   client_keys, request_keys>>
    /\ UNCHANGED <<aggVars, recordVars, fetchVars, cacheVars, detailVars, runVars>>

\* src/app.py, lines 91-95: the first fetch of the run. It asks the upstream
\* for page 1 (src/langfuse_client.py, line 262) unless the memoized result
\* is served or the fetch ends before its first request.
FetchTraces ==
    /\ app_pc = "client"
    /\ app_client # "None"
    /\ fetch_calls' = fetch_calls + 1
    /\ \E issued \in BOOLEAN :
           /\ upstream' = issued
           /\ request_keys' =
                  IF issued
                  THEN Append(request_keys, FetcherKeys(secrets, environ))
                  ELSE request_keys
    /\ app_pc' = "tab2"
    /\ UNCHANGED <<secrets, environ, app_client, errors, client_keys>>
    /\ UNCHANGED <<aggVars, recordVars, fetchVars, cacheVars, detailVars, runVars>>

\* src/app.py, lines 369-373: the fetch of the second tab.  It asks the
\* upstream for the detail of a trace (src/langfuse_client.py, line 595)
\* unless the memoized result is served, there is no trace, or it finds no
\* keys (569-570).
FetchToolCalls ==
    /\ app_pc = "tab2"
    /\ fetch_calls' = fetch_calls + 1
    /\ \E issued \in BOOLEAN :
           /\ issued => ~CredentialsMissing(FetcherKeys(secrets, environ)[1],
                                            FetcherKeys(secrets, environ)[2])
           /\ upstream' = (upstream \/ issued)
           /\ request_keys' =
                  IF issued
                  THEN Append(request_keys, FetcherKeys(secrets, environ))
                  ELSE request_keys
    /\ app_pc' = "done"
    /\ UNCHANGED <<secrets, environ, app_client, errors, client_keys>>
    /\ UNCHANGED <<aggVars, recordVars, fetchVars, cacheVars, detailVars, runVars>>

NextApp ==
    \/ GetClient
    \/ StopWithoutClient
    \/ FetchTraces
    \/ FetchToolCalls

SpecApp == InitApp /\ [][NextApp]_vars

(***************************************************************************)
(* Properties of the run of the script                                     *)
(***************************************************************************)

\* The run reports the missing credentials, has no client and stops before
\* any fetch: no fetcher is called and no upstream request is issued.
HaltsWithoutFetch ==
    /\ app_pc \in {"start", "client", "stopped"}
    /\ app_pc # "start" =>
           /\ app_client = "None"
           /\ errors # <<>>
           /\ errors[1] = "Langfuse credentials not found"
    /\ fetch_calls = 0
    /\ ~upstream

\* C16 as stated: when neither the secrets store nor the environment holds
\* both a public key and a secret key, get_langfuse_client reports the error
\* and returns None, and the run halts before any fetch.
C16_NoSourceWithBothKeysHalts ==
    ( /\ ~(Truthy(secrets.public_key) /\ Truthy(secrets.secret_key))
      /\ ~(Truthy(environ.LANGFUSE_PUBLIC_KEY) /\ Truthy(environ.LANGFUSE_SECRET_KEY)) )
    => HaltsWithoutFetch

\* C16, amended: when the public key or the secret key is in neither the
\* secrets store nor the environment, get_langfuse_client reports the error
\* and returns None, and the run halts before any fetch.
C16_KeyInNoSourceHalts ==
    ( \/ ~Truthy(secrets.public_key) /\ ~Truthy(environ.LANGFUSE_PUBLIC_KEY)
      \/ ~Truthy(secrets.secret_key) /\ ~Truthy(environ.LANGFUSE_SECRET_KEY) )
    => HaltsWithoutFetch

\* Both the secrets store and the environment define a public key and a
\* secret key.
BothSourcesDefineKeys ==
    /\ Truthy(secrets.public_key)
    /\ Truthy(secrets.secret_key)
    /\ Truthy(environ.LANGFUSE_PUBLIC_KEY)
    /\ Truthy(environ.LANGFUSE_SECRET_KEY)

\* C27: whenever both the secrets store and the environment define a pair
\* of keys, the Basic-Auth header of every upstream request is built from
\* the pair get_langfuse_client selected, the pair of the secrets store.
C27_RequestsUseTheKeysOfTheClient ==
    (BothSourcesDefineKeys /\ app_client = "Langfuse") =>
        /\ client_keys = <<secrets.public_key, secrets.secret_key>>
        /\ \A i \in DOMAIN request_keys : request_keys[i] = client_keys

C16_Witness ==
    /\ app_pc = "stopped"
    /\ Truthy(secrets.public_key)
    /\ Truthy(environ.LANGFUSE_PUBLIC_KEY)
    /\ secrets.secret_key = None
    /\ environ.LANGFUSE_SECRET_KEY = JStr(<<>>)
    /\ app_client = "None"
    /\ errors = <<"Langfuse credentials not found", "Langfuse client not initialized">>
    /\ fetch_calls = 0

(***************************************************************************)
(* fetch_tool_calls_by_company (src/langfuse_client.py, lines 526-716):    *)
(* the call, and its loop over the traces with one detail request each.    *)
(***************************************************************************)

\* Most traces whose detail requests are followed.
MaxDetailTraces == 2

UnknownTool == <<"U","n","k","n","o","w","n"," ","T","o","o","l">>

lookup == <<"l","o","o","k","u","p">>

\* Lines 613-618 (and 623-628, 635-640, 646-651): obj.get('tool_call') or
\* obj.get('tool_calls'), as a list.
ToolCallsIn(obj) ==
    LET tool_call == Or(DictGet(obj, "tool_call", None),
                        DictGet(obj, "tool_calls", None))
    IN  IF ~Truthy(tool_call) THEN <<>>
        ELSE IF tool_call.t = "list" THEN tool_call.l
        ELSE <<tool_call>>

\* Lines 621-628: the tool calls of the dicts of a list.
RECURSIVE ToolCallsOfEach(_)
ToolCallsOfEach(items) ==
    IF items = <<>> THEN <<>>
    ELSE (IF Head(items).t = "dict" THEN ToolCallsIn(Head(items)) ELSE <<>>)
             \o ToolCallsOfEach(Tail(items))

\* Lines 602-606: output, outputs, or observations when it is a list.
output(trace_data) ==
    Or(DictGet(trace_data, "output", None),
       Or(DictGet(trace_data, "outputs", None),
          IF DictGet(trace_data, "observations", None).t = "list"
          THEN DictGet(trace_data, "observations", None)
          ELSE None))

\* Lines 609-651: tool_call_list.  A string output is parsed as JSON and
\* contributes nothing unless it is the text of an object (lines 629-642);
\* the strings of the payloads here are not.
tool_call_list(trace_data) ==
    LET from_output ==
            CASE output(trace_data).t = "dict" -> ToolCallsIn(output(trace_data))
              [] output(trace_data).t = "list" ->
                     ToolCallsOfEach(output(trace_data).l)
              [] OTHER -> <<>>
    IN  IF from_output # <<>> THEN from_output ELSE ToolCallsIn(trace_data)

\* A variant of tool_name that looks at name first.
tool_name_name_first(tool_call_item) ==
    Or(DictGet(tool_call_item, "name", None),
       Or(DictGet(tool_call_item, "tool_name", None),
          Or(DictGet(tool_call_item, "toolName", None),
             JStr(UnknownTool))))

\* Lines 659-664.
tool_name(tool_call_item) ==
    Or(DictGet(tool_call_item, "tool_name", None),
       Or(DictGet(tool_call_item, "toolName", None),
          Or(DictGet(tool_call_item, "name", None),
             JStr(UnknownTool))))

\* Lines 667-673.
success(tool_call_item) ==
    IF DictGet(tool_call_item, "success", None) = None
    THEN TRUE
    ELSE Truthy(DictGet(tool_call_item, "success", None))

\* Lines 675-680.
ToolCallRecord(trace, tool_call_item) ==
    [company_name |-> trace.company_name,
     tool_name    |-> StrOf(tool_name(tool_call_item)),
     success      |-> success(tool_call_item),
     timestamp    |-> trace.timestamp]

\* Lines 654-680: for tool_call_item in tool_call_list
RECURSIVE ForToolCallItem(_, _)
ForToolCallItem(trace, items) ==
    IF items = <<>> THEN <<>>
    ELSE (IF Head(items).t = "dict"
          THEN <<ToolCallRecord(trace, Head(items))>> ELSE <<>>)
             \o ForToolCallItem(trace, Tail(items))

\* A variant of OnDetailFailure that loses the tool calls collected so far.
OnDetailFailureStartsOver(tool_calls_so_far) == <<>>

\* Lines 682-697: continue, with tool_calls as it is.
OnDetailFailure(tool_calls_so_far) == tool_calls_so_far

\* The detail request of a trace gave a payload the code processes:
\* status 200 and a JSON object.
DetailSucceeded(detail) ==
    /\ detail.get = "returned"
    /\ detail.status_code = 200
    /\ detail.body.json = "decoded"
    /\ detail.body.data.t = "dict"

\* Lines 592-697: the body of the loop for one trace with an id, given the
\* outcome of requests.get: the new tool_calls.  response.json() raises on an undecodable body
\* and trace_data.get on a payload that is not an object.
DetailIteration(trace, detail, tool_calls_so_far) ==
    IF DetailSucceeded(detail)
    THEN tool_calls_so_far
             \o ForToolCallItem(trace, tool_call_list(detail.body.data))
    ELSE OnDetailFailure(tool_calls_so_far)

(***************************************************************************)
(* What the detail endpoint may answer                                     *)
(***************************************************************************)

\* Tool-call objects that differ in their name keys.
NameItems ==
    { Object(("tool_name" :> a) @@ ("toolName" :> b) @@ ("name" :> c)) :
      a \in {Absent, JStr(<<>>), JStr(search)},
      b \in {Absent, JStr(create)},
      c \in {JStr(lookup)} }
        \cup { EmptyDict }

\* Tool-call objects that differ in success.
SuccessItems ==
    { Object(("tool_name" :> JStr(search)) @@ ("success" :> v)) :
      v \in {None, JBool(TRUE), JBool(FALSE), JInt(0), JStr(note)} }

item1 == Object(("tool_name" :> JStr(search)) @@ ("success" :> JBool(FALSE)))

item2 == Object(("name" :> JStr(lookup)))

\* Payloads of the detail endpoint.
TraceData ==
    { Object(("output" :> Object(("tool_call" :> i)))) :
      i \in NameItems \cup SuccessItems }
        \cup { Object(("output" :> Object(("tool_calls" :> JList(<<item1, item2>>))))),
               Object(("outputs" :> Object(("tool_call" :> item2)))),
               Object(("observations" :>
                          JList(<<Object(("tool_call" :> item1)),
                                  JStr(note),
                                  Object(("tool_calls" :> JList(<<JStr(note), item2>>)))>>))),
               Object(("output" :> JStr(note)) @@ ("tool_calls" :> JList(<<item1>>))),
               Object(("tool_call" :> item2)),
               EmptyDict,
               JList(<<item1>>),
               None }

DetailResponses ==
    { [get |-> "raised", error |-> e] :
      e \in {"RequestException", "Exception"} }
        \cup { [get |-> "returned", status_code |-> c] : c \in {404, 500} }
        \cup { [get |-> "returned", status_code |-> 200,
                body |-> [json |-> "undecodable"]] }
        \cup { [get |-> "returned", status_code |-> 200,
                body |-> [json |-> "decoded", data |-> d]] : d \in TraceData }

\* Records fetch_traces_by_company returns: one with an id and a company,
\* one with an id and no company, one without an id.
FetchedTraces ==
    { RecordOf(NormalizeTrace(raw)) :
      raw \in { Object(("id" :> JStr(t1)) @@ ("timestamp" :> JStr(IsoZ)) @@
                       ("metadata" :> Object(("company_name" :> JStr(Acme))))),
                Object(("id" :> JStr(t2))),
                Object(("metadata" :> Object(("company" :> JStr(ACME))))) } }

(***************************************************************************)
(* Specification of fetch_tool_calls_by_company: a behaviour is one call.  *)
(***************************************************************************)

InitDetail ==
    /\ detail_pc = "call"
    /\ detail_client \in {"None", "Langfuse"}
    /\ fetched \in [raised : {TRUE}, traces : {<<>>}]
                     \cup [raised : {FALSE},
                           traces : ListsUpTo(FetchedTraces, MaxDetailTraces)]
    /\ detail_keys \in {"missing", "not ascii", "ascii"}
    /\ details = <<>>
    /\ detail_calls = <<>>
    /\ detail_result = <<>>
    /\ AggIdle
    /\ RecordsIdle
    /\ FetchIdle
    /\ CacheIdle
    /\ AppIdle
    /\ RunIdle

\* Lines 544-581: up to the loop.  An exception (raised by the call of
\* fetch_traces_by_company or by encode('ascii') at 574) reaches the handler
\* of 709-716, whose st.debug raises AttributeError.
CallDetail ==
    /\ detail_pc = "call"
    /\ IF detail_client = "None"
       THEN detail_pc' = "returned"
       ELSE IF fetched.raised
       THEN detail_pc' = "raised"
       ELSE IF fetched.traces = <<>>
       THEN detail_pc' = "returned"
       ELSE IF detail_keys = "missing"
       THEN detail_pc' = "returned"
       ELSE IF detail_keys = "not ascii"
       THEN detail_pc' = "raised"
       ELSE detail_pc' = "loop"
    /\ UNCHANGED <<detail_client, fetched, detail_keys, details, detail_calls,
                   detail_result>>
    /\ UNCHANGED <<aggVars, recordVars, fetchVars, cacheVars, appVars, runVars>>

\* Lines 584-697: one pass of "for trace in traces".  A trace without an id
\* is passed over with no request (589-590).
ForTrace ==
    /\ detail_pc = "loop"
    /\ Len(details) < Len(fetched.traces)
    /\ LET trace == fetched.traces[Len(details) + 1]
       IN  IF trace.trace_id = <<>>
           THEN /\ details' = Append(details, NoResponse)
                /\ UNCHANGED <<detail_calls, detail_pc>>
           ELSE \E detail \in DetailResponses :
                    /\ details' = Append(details, detail)
                    /\ detail_calls' =
                           DetailIteration(trace, detail, detail_calls)
                    /\ UNCHANGED detail_pc
    /\ UNCHANGED <<detail_client, fetched, detail_keys, detail_result>>
    /\ UNCHANGED <<aggVars, recordVars, fetchVars, cacheVars, appVars, runVars>>

\* Lines 699-707: return tool_calls
ReturnToolCalls ==
    /\ detail_pc = "loop"
    /\ Len(details) = Len(fetched.traces)
    /\ detail_result' = detail_calls
    /\ detail_pc' = "returned"
    /\ UNCHANGED <<detail_client, fetched, detail_keys, details, detail_calls>>
    /\ UNCHANGED <<aggVars, recordVars, fetchVars, cacheVars, appVars, runVars>>

NextDetail ==
    \/ CallDetail
    \/ ForTrace
    \/ ReturnToolCalls

SpecDetail == InitDetail /\ [][NextDetail]_vars

(***************************************************************************)
(* Properties of fetch_tool_calls_by_company                               *)
(***************************************************************************)

\* The JSON objects of a list, in their order.
RECURSIVE DictsOf(_)
DictsOf(items) ==
    IF items = <<>> THEN <<>>
    ELSE (IF Head(items).t = "dict" THEN <<Head(items)>> ELSE <<>>)
             \o DictsOf(Tail(items))

\* The tool-call objects the payload of a successful detail request holds.
ToolCallObjects(detail) ==
    IF DetailSucceeded(detail)
    THEN DictsOf(tool_call_list(detail.body.data))
    ELSE <<>>

\* The tool calls of the first n traces, in trace order: for each trace
\* whose detail request succeeded, one <<trace, tool-call object>> per
\* object of its payload.
RECURSIVE ToolCallsThrough(_)
ToolCallsThrough(n) ==
    IF n = 0 THEN <<>>
    ELSE ToolCallsThrough(n - 1)
             \o [k \in 1..Len(ToolCallObjects(details[n])) |->
                    <<fetched.traces[n], ToolCallObjects(details[n])[k]>>]

\* The places a tool name is looked for, in the order of the lookup.
ToolNamePlaces(tool_call_object) ==
    << <<tool_call_object.d, "tool_name">>,
       <<tool_call_object.d, "toolName">>,
       <<tool_call_object.d, "name">> >>

\* The detail request of the n-th trace failed: an exception, a status
\* other than 200 or a payload that cannot be processed.
DetailFailed(n) ==
    /\ details[n] # NoResponse
    /\ ~DetailSucceeded(details[n])

\* C24: when the detail request of one trace fails, that trace contributes
\* no tool-call record and every other trace is still processed: the result
\* holds the tool calls of all traces whose detail request succeeded, in
\* trace order.
C24_FailedDetailSkipsOnlyItsTrace ==
    LET expected == ToolCallsThrough(Len(details))
    IN  /\ detail_pc = "loop" =>
               /\ Len(detail_calls) = Len(expected)
               /\ \A k \in DOMAIN detail_calls :
                      detail_calls[k].company_name = expected[k][1].company_name
        /\ (detail_pc = "returned" /\ details # <<>>) =>
               /\ Len(details) = Len(fetched.traces)
               /\ Len(detail_result) = Len(expected)
               /\ \A k \in DOMAIN detail_result :
                      /\ detail_result[k].company_name =
                             expected[k][1].company_name
                      /\ detail_result[k].success = success(expected[k][2])

C24_Witness ==
    /\ detail_pc = "returned"
    /\ Len(details) = 2
    /\ DetailSucceeded(details[1])
    /\ DetailFailed(2)
    /\ Len(detail_result) = 2

\* C25: every tool-call record has a boolean success that is true when the
\* tool-call object does not specify success, a tool_name that is the first
\* non-empty of tool_name, toolName, name and else 'Unknown Tool', and the
\* company_name and timestamp of the trace it was extracted from.
C25_ToolCallRecordFields ==
    LET expected == ToolCallsThrough(Len(details))
    IN
    (detail_pc = "returned" /\ details # <<>>) =>
        /\ Len(detail_result) = Len(expected)
        /\ \A k \in DOMAIN detail_result :
               LET trace == expected[k][1]
                   tool_call_object == expected[k][2]
               IN  /\ detail_result[k].success \in BOOLEAN
                   /\ "success" \notin DOMAIN tool_call_object.d
                          => detail_result[k].success = TRUE
                   /\ detail_result[k].tool_name =
                          IF Filled(ToolNamePlaces(tool_call_object)) = {}
                          THEN UnknownTool
                          ELSE FirstFilled(ToolNamePlaces(tool_call_object))
                   /\ detail_result[k].company_name = trace.company_name
                   /\ detail_result[k].timestamp = trace.timestamp

C25_Witness ==
    /\ detail_pc = "returned"
    /\ Len(details) = 2
    /\ Len(detail_result) = 3
    /\ detail_result[1].tool_name = create
    /\ detail_result[1].success
    /\ detail_result[1].company_name = Acme
    /\ detail_result[2].tool_name = search
    /\ ~detail_result[2].success
    /\ detail_result[3].tool_name = lookup
    /\ detail_result[3].company_name = UnknownCompany

(***************************************************************************)
(* The runs of src/app.py in one session: the time-period selection, the   *)
(* window of get_time_range_filter (src/langfuse_client.py, lines 75-147)  *)
(* and the memoized fetch of the traces.  Times are whole seconds; time 0  *)
(* is a Monday at 00:00 that is the first day of a month of 31 days, and   *)
(* the local time zone has offset 0.                                       *)
(***************************************************************************)

\* Most runs of the script in one session.
MaxRuns == 3

Minute == 60

Hour == 60 * Minute

Day == 24 * Hour

\* The seconds between one run of the script and the next.
RunGaps == {1, ttl - 1, ttl}

\* datetime.now() at the start of the session: a Wednesday at 01:00.
SessionStart == 2 * Day + Hour

Today == <<"T","o","d","a","y">>

ThisWeek == <<"T","h","i","s"," ","W","e","e","k">>

Last7Days == <<"L","a","s","t"," ","7"," ","D","a","y","s">>

ThisMonth == <<"T","h","i","s"," ","M","o","n","t","h">>

CustomRange == <<"C","u","s","t","o","m"," ","R","a","n","g","e">>

\* The options of the radio (src/app.py, lines 48-52).
TimePeriods == <<Today, ThisWeek, Last7Days, ThisMonth, CustomRange>>

\* str.replace(" ", "_")
RECURSIVE ReplaceSpaces(_)
ReplaceSpaces(s) ==
    IF s = <<>> THEN <<>>
    ELSE <<IF s[1] = " " THEN "_" ELSE s[1]>> \o ReplaceSpaces(Tail(s))

\* src/app.py, line 69: time_period.lower().replace(" ", "_")
time_period_key(label) == ReplaceSpaces(Lower(label))

NoDate == [none |-> TRUE]

\* A datetime: its time and its tzinfo ("naive" when it has none).
DateTime(at, tzinfo) == [none |-> FALSE, at |-> at, tzinfo |-> tzinfo]

\* src/app.py, lines 57-66: the two dates of the sidebar as datetimes, None
\* unless the option is 'Custom Range'.
custom_start(label, dates) ==
    IF label = CustomRange THEN DateTime(dates[1] * Day, "naive") ELSE NoDate

custom_end(label, dates) ==
    IF label = CustomRange
    THEN DateTime(dates[2] * Day + (Day - 1), "naive")
    ELSE NoDate

\* now.replace(hour=0, minute=0, second=0, microsecond=0)
Midnight(t) == t - (t % Day)

\* datetime.replace(tzinfo=local_tz) of a naive datetime (lines 132-135)
MadeAware(datetime) ==
    IF datetime.tzinfo = "naive"
    THEN DateTime(datetime.at, "local") ELSE datetime

\* get_time_range_filter(time_period, custom_start, custom_end) called at
\* time t: the branch taken, start and end.
get_time_range_filter(key, start_date, end_date, t) ==
    CASE key = <<"t","o","d","a","y">> ->
             [branch |-> "today",
              start  |-> DateTime(t - 24 * Hour, "local"),
              end    |-> DateTime(t + Minute, "local")]
      [] key = <<"t","h","i","s","_","w","e","e","k">> ->
             [branch |-> "this_week",
              start  |-> DateTime(Midnight(t - ((t \div Day) % 7) * Day), "utc"),
              end    |-> DateTime(t, "utc")]
      [] key = <<"l","a","s","t","_","7","_","d","a","y","s">> ->
             [branch |-> "last_7_days",
              start  |-> DateTime(t - 7 * Day, "local"),
              end    |-> DateTime(t, "local")]
      [] key = <<"t","h","i","s","_","m","o","n","t","h">> ->
             [branch |-> "this_month",
              start  |-> DateTime(t - (t % (31 * Day)), "local"),
              end    |-> DateTime(t, "local")]
      [] key = <<"c","u","s","t","o","m">> ->
             IF ~start_date.none /\ ~end_date.none
             THEN [branch |-> "custom",
                   start  |-> MadeAware(start_date),
                   end    |-> MadeAware(end_date)]
             ELSE [branch |-> "custom without dates",
                   start  |-> DateTime(Midnight(t), "local"),
                   end    |-> DateTime(t, "local")]
      [] OTHER ->
             [branch |-> "default",
              start  |-> DateTime(Midnight(t), "local"),
              end    |-> DateTime(t, "local")]

\* The values of the two date inputs, as day numbers.
DateInputs == { <<0, 1>>, <<1, 1>>, <<1, 2>> }

\* The selections of the sidebar: an option, with two dates for 'Custom
\* Range'.
Selections ==
    { <<TimePeriods[i], <<>> >> : i \in 1..4 }
        \cup { <<CustomRange, d>> : d \in DateInputs }

\* The entry of the cache for (start_time, end_time) that is younger than
\* ttl at time t, if any.
FreshEntries(entries, key, t) ==
    { e \in entries : e.key = key /\ Fresh(e.entry, t) }

\* One run of the script at time t (src/app.py, lines 46-95): the window of
\* the selection and the call of fetch_traces_by_company through
\* st.cache_data, which runs the function and stores its value unless a
\* fresh entry has the same (start_time, end_time).
ScriptRun(selection, t, entries) ==
    LET filter == get_time_range_filter(
                      time_period_key(selection[1]),
                      custom_start(selection[1], selection[2]),
                      custom_end(selection[1], selection[2]), t)
        key == <<filter.start, filter.end>>
    IN  /\ run_now' = t
        /\ runs' = runs + 1
        /\ time_period' = selection[1]
        /\ custom_dates' = selection[2]
        /\ branch' = filter.branch
        /\ window' = key
        /\ IF FreshEntries(entries, key, t) # {}
           THEN /\ served' = "cache"
                /\ run_cache' = entries
           ELSE /\ served' = "upstream"
                /\ run_cache' = { e \in entries : e.key # key }
                                    \cup { [key |-> key, entry |-> Entry("traces", t)] }

InitRun ==
    /\ run_now = SessionStart
    /\ runs = 0
    /\ run_cache = {}
    /\ time_period = <<>>
    /\ custom_dates = <<>>
    /\ branch = "none"
    /\ window = <<>>
    /\ served = "none"
    /\ trigger = "none"
    /\ AggIdle
    /\ RecordsIdle
    /\ FetchIdle
    /\ CacheIdle
    /\ AppIdle
    /\ DetailIdle

\* A run of the script: the first one, or one started by a widget or by the
\* automatic refresh.
Rerun ==
    /\ runs < MaxRuns
    /\ \E selection \in Selections, gap \in RunGaps :
           ScriptRun(selection, run_now + gap, run_cache)
    /\ trigger' = "rerun"
    /\ UNCHANGED <<aggVars, recordVars, fetchVars, cacheVars, appVars, detailVars>>

\* 'Refresh Now' (src/app.py, lines 37-40): st.cache_data.clear() and
\* st.rerun(), which runs the script again with the same selection.
RefreshNow ==
    /\ 0 < runs
    /\ runs < MaxRuns
    /\ \E gap \in RunGaps :
           ScriptRun(<<time_period, custom_dates>>, run_now + gap, {})
    /\ trigger' = "refresh"
    /\ UNCHANGED <<aggVars, recordVars, fetchVars, cacheVars, appVars, detailVars>>

NextRun ==
    \/ Rerun
    \/ RefreshNow

SpecRun == InitRun /\ [][NextRun]_vars

(***************************************************************************)
(* Properties of the runs                                                  *)
(***************************************************************************)

\* The branch of get_time_range_filter that belongs to an option.
OwnBranch(label) ==
    CASE label = Today       -> "today"
      [] label = ThisWeek    -> "this_week"
      [] label = Last7Days   -> "last_7_days"
      [] label = ThisMonth   -> "this_month"
      [] label = CustomRange -> "custom"

\* C26: when the script is re-run less than 5 minutes after a run that
\* fetched data, with the same time-period selection and without 'Refresh
\* Now', the trace data is served from the cache and no upstream request is
\* issued; 'Refresh Now' makes the next run fetch from the upstream API.
C26_RerunWithinTtlServedFromCache ==
    [][ /\ ( /\ runs > 0
             /\ runs' = runs + 1
             /\ trigger' = "rerun"
             /\ time_period' = time_period
             /\ custom_dates' = custom_dates
             /\ run_now' - run_now < ttl )
           => served' = "cache"
        /\ ( runs' = runs + 1 /\ trigger' = "refresh" )
           => served' = "upstream" ]_vars

\* C28: the key derived from the label of each option selects that option's
\* own branch of get_time_range_filter; with 'Custom Range' the window
\* starts at the chosen start date 00:00 and ends at the end of the chosen
\* end date, both timezone-aware.
C28_EachOptionTakesItsOwnBranch ==
    runs > 0 =>
        /\ branch = OwnBranch(time_period)
        /\ time_period = CustomRange =>
               window = << DateTime(custom_dates[1] * Day, "local"),
                           DateTime(custom_dates[2] * Day + (Day - 1), "local") >>

(***************************************************************************)
(* From the page to the rollups (src/app.py, lines 91-99 and 369-377):     *)
(* the records of one page are the input of the two rollups.               *)
(***************************************************************************)

\* Traces with and without a company key, one of them with metadata that
\* is not a JSON object.
EndToEndTraces ==
    { Object(("id" :> JStr(t1)) @@ ("session_id" :> JStr(s1)) @@
             ("metadata" :> Object(("company_name" :> JStr(Acme))))),
      Object(("id" :> JStr(t2)) @@
             ("metadata" :> Object(("company" :> JStr(Test))))),
      Object(("id" :> JStr(t1)) @@
             ("metadata" :> Object(("company_name" :> JStr(<<>>)) @@
                                   ("conversation_id" :> JStr(c1)) @@
                                   ("tools" :> Object(("successful" :> JInt(2))))))),
      Object(("id" :> JStr(t2)) @@ ("metadata" :> None)),
      Object(("session_id" :> JStr(s2))),
      Object(("id" :> JStr(t1)) @@ ("metadata" :> JStr(note))) }

\* The payloads of the detail endpoint, the same for every trace of a run.
EndToEndDetails ==
    { [get |-> "returned", status_code |-> 200,
       body |-> [json |-> "decoded",
                 data |-> Object(("output" :>
                              Object(("tool_calls" :> JList(<<item1, item2>>)))))]],
      [get |-> "returned", status_code |-> 200,
       body |-> [json |-> "decoded", data |-> Object(("tool_call" :> item2))]] }

\* src/langfuse_client.py, lines 584-697, with the same answer to every
\* detail request.
RECURSIVE ForTraceInTraces(_, _, _)
ForTraceInTraces(rest, detail, tool_calls_so_far) ==
    IF rest = <<>> THEN tool_calls_so_far
    ELSE ForTraceInTraces(
             Tail(rest), detail,
             IF Head(rest).trace_id = <<>> THEN tool_calls_so_far
             ELSE DetailIteration(Head(rest), detail, tool_calls_so_far))

InitEndToEnd ==
    /\ batch \in ListsUpTo(EndToEndTraces, MaxBatch)
    /\ appended = <<>>
    /\ batch_pc = "pending"
    /\ pending = "fetch"
    /\ traces = <<>>
    /\ tool_calls = <<>>
    /\ company_df = NotReturned
    /\ tool_df = NotReturned
    /\ FetchIdle
    /\ CacheIdle
    /\ AppIdle
    /\ DetailIdle
    /\ RunIdle

\* src/app.py, lines 91-99: traces = fetch_traces_by_company(...), whose
\* records are those of the page (also when the loop over the page raised,
\* lines 424-441); the rollup is called if traces is not empty.
TracesToRollup ==
    /\ pending = "fetch"
    /\ batch_pc # "pending"
    /\ traces' = appended
    /\ pending' = IF appended # <<>>
                  THEN "aggregate_company_conversations" ELSE "none"
    /\ UNCHANGED <<tool_calls, company_df, tool_df>>
    /\ UNCHANGED <<recordVars, fetchVars, cacheVars, appVars, detailVars, runVars>>

\* src/app.py, lines 369-377: tool_calls = fetch_tool_calls_by_company(...),
\* from the same records; the rollup is called if tool_calls is not empty.
ToolCallsToRollup ==
    /\ pending = "fetch"
    /\ batch_pc # "pending"
    /\ \E detail \in EndToEndDetails :
           /\ tool_calls' = ForTraceInTraces(appended, detail, <<>>)
           /\ pending' = IF ForTraceInTraces(appended, detail, <<>>) # <<>>
                         THEN "aggregate_tool_calls_by_name" ELSE "none"
    /\ UNCHANGED <<traces, company_df, tool_df>>
    /\ UNCHANGED <<recordVars, fetchVars, cacheVars, appVars, detailVars, runVars>>

NextEndToEnd ==
    \/ ProcessBatch
    \/ TracesToRollup
    \/ ToolCallsToRollup
    \/ AggregateCompany
    \/ AggregateTools

SpecEndToEnd == InitEndToEnd /\ [][NextEndToEnd]_vars

(***************************************************************************)
(* Properties from the page to the rollups                                 *)
(***************************************************************************)

\* The records of a list that do not carry the sentinel of the fetcher.
WithoutUnknownCompany(records) ==
    LET Known(r) == r.company_name # UnknownCompany
    IN  SelectSeq(records, Known)

\* C29: a trace that lacks every company-name key gets 'Unknown Company',
\* which is on the denylist: no rollup has a row for it, and the rollups
\* are those of the input without the records of such traces.
C29_UnknownCompanyNeverAggregated ==
    /\ \A i \in DOMAIN appended :
           Filled(CompanyPlaces(batch[i])) = {}
               => appended[i].company_name = UnknownCompany
    /\ CompanyReturned =>
           /\ UnknownCompany \notin CompaniesIn(company_df)
           /\ company_df \in
                  aggregate_company_conversations(WithoutUnknownCompany(traces))
    /\ ToolsReturned =>
           /\ UnknownCompany \notin CompaniesIn(tool_df)
           /\ tool_df = aggregate_tool_calls_by_name(WithoutUnknownCompany(tool_calls))

C29_Witness ==
    /\ CompanyReturned
    /\ Len(traces) = 2
    /\ traces[1].company_name = UnknownCompany
    /\ traces[1].success_count = 2
    /\ traces[2].company_name = Acme
    /\ CompaniesIn(company_df) = {Acme}
    /\ company_df.rows[1]["Number of Tool Calls"] = 1
    /\ company_df.rows[1]["Success Count"] = 0
====
